---- MODULE Spec2Model ----
(***************************************************************************)
(* Model of the WWFC Bluesky news bot: the KV-backed state manager          *)
(* (entities/posted-state/state-manager.ts) and the reconciliation cycle    *)
(* that drives it (app/index.ts: processNewContent, processPostResults).    *)
(***************************************************************************)
EXTENDS Integers, Sequences, FiniteSets, TLC

(***************************************************************************)
(* Program constants.  The three size constants are scaled down together    *)
(* (source: 1000, 10 and 10) so that truncation of postedIds is reachable;  *)
(* the scaling keeps the source's relation maxResults, pageSize <=          *)
(* MAX_POSTED_IDS.                                                          *)
(***************************************************************************)
MAX_POSTED_IDS == 2

maxResults == 2

pageSize == 2

ALERT_FAILURE_THRESHOLD == 3

\* fetchChannelUploads(env.YOUTUBE_CHANNEL_ID, 20) and
\* fetchArticles({ pageSize: 20 }) of initializeState, scaled down: at least
\* what a cycle fetches and at most MAX_POSTED_IDS
initializeMaxResults == 2

initializePageSize == 2

\* new Date(0): the epoch, lastUpdatedAt of the default state.
Epoch == 0

\* new Date(): the time of a mutation, later than the epoch.
Now == 1

(***************************************************************************)
(* Bounds of the model.                                                     *)
(***************************************************************************)
\* ids the video source can list
NumVideoIds == 3

\* ids the article source can list
NumArticleIds == 1

\* ids a direct caller of the state manager uses for youtube
NumCallerVideoIds == 2

\* an id list handed to a mark-as-posted operation has at most this length:
\* one more than postedIds keeps
MaxIdList == MAX_POSTED_IDS + 1

\* an item list handed to filterNewItems has at most this length
MaxItems == 2

\* a fetch or recordFailure is not taken once the counter has this value
MaxFailures == 4

\* longest playlist of a channel: more than one fetch returns
MaxUploads == maxResults + 1

SourceKeys == {"youtube", "wwfcNews"}

\* a direct caller uses one id for wwfcNews: enough for a call on one source
\* to be seen to leave the other alone
CallerIds(source) ==
    IF source = "youtube" THEN 1..NumCallerVideoIds ELSE {1}

Range(s) == {s[i] : i \in 1..Len(s)}

\* Array.prototype.slice(0, n)
Slice(s, n) == SubSeq(s, 1, IF Len(s) < n THEN Len(s) ELSE n)

\* all sequences over S of length at most n
SeqsUpTo(S, n) == UNION {[1..k -> S] : k \in 0..n}

(***************************************************************************)
(* types.ts: the persisted record.                                          *)
(***************************************************************************)
DEFAULT_SOURCE_STATE ==
    [postedIds |-> <<>>, lastUpdatedAt |-> Epoch, consecutiveFailures |-> 0]

DEFAULT_STATE ==
    [youtube |-> DEFAULT_SOURCE_STATE, wwfcNews |-> DEFAULT_SOURCE_STATE]

\* null / no value under the key: the empty tuple; a value v is <<v>>.
Null == <<>>

\* JSON.stringify(state): the text stored under STATE_KEY, field by field.
JSONstringify(state) ==
    << <<state.youtube.postedIds, state.youtube.lastUpdatedAt,
         state.youtube.consecutiveFailures>>,
       <<state.wwfcNews.postedIds, state.wwfcNews.lastUpdatedAt,
         state.wwfcNews.consecutiveFailures>> >>

\* kv.get(STATE_KEY, 'json'): parse of the stored text.
JSONparse(text) ==
    [youtube  |-> [postedIds |-> text[1][1], lastUpdatedAt |-> text[1][2],
                   consecutiveFailures |-> text[1][3]],
     wwfcNews |-> [postedIds |-> text[2][1], lastUpdatedAt |-> text[2][2],
                   consecutiveFailures |-> text[2][3]]]

(***************************************************************************)
(* The state manager.  A manager value m is the closure state of one        *)
(* createStateManager(kv) together with the store it talks to:              *)
(*   kv          the value under STATE_KEY (Null when absent)               *)
(*   cachedState Null or <<PostedState>>                                    *)
(*   isDirty     the dirty flag                                             *)
(*   gets, puts, dels   kv.get / kv.put / kv.delete calls made              *)
(*   threw       an exception is propagating                                *)
(* Every operation is a function from m to m; an operation applied to a     *)
(* manager in which an exception propagates does nothing.  rf / wf say      *)
(* whether the kv.get / kv.put the operation would make rejects.            *)
(***************************************************************************)
Manager(kvv, cached, dirty) ==
    [kv |-> kvv, cachedState |-> cached, isDirty |-> dirty,
     gets |-> 0, puts |-> 0, dels |-> 0, threw |-> FALSE]

Throw(m) == [m EXCEPT !.threw = TRUE]

\* stored ?? structuredClone(DEFAULT_STATE)
StoredOrDefault(kvv) == IF kvv = Null THEN DEFAULT_STATE ELSE JSONparse(kvv[1])

\* getState for which an absent record is an error
getStateFailsWhenAbsent(m, rf) ==
    IF m.threw THEN m
    ELSE IF m.cachedState # Null THEN m
    ELSE IF rf \/ m.kv = Null THEN Throw([m EXCEPT !.gets = @ + 1])
    ELSE [m EXCEPT !.gets = @ + 1, !.cachedState = <<StoredOrDefault(m.kv)>>]

\* getState that reads the store at every call
getStateUncached(m, rf) ==
    IF m.threw THEN m
    ELSE IF rf THEN Throw([m EXCEPT !.gets = @ + 1])
    ELSE [m EXCEPT !.gets = @ + 1, !.cachedState = <<StoredOrDefault(m.kv)>>]

getState(m, rf) ==
    IF m.threw THEN m
    ELSE IF m.cachedState # Null THEN m
    ELSE IF rf THEN Throw([m EXCEPT !.gets = @ + 1])
    ELSE [m EXCEPT !.gets = @ + 1, !.cachedState = <<StoredOrDefault(m.kv)>>]

loadState(m, rf) ==
    IF m.threw THEN m
    ELSE IF rf THEN Throw([m EXCEPT !.gets = @ + 1])
    ELSE [m EXCEPT !.gets = @ + 1, !.cachedState = <<StoredOrDefault(m.kv)>>,
                   !.isDirty = FALSE]

\* saveIfDirty that writes whenever a state is loaded, dirty or not
saveIfLoaded(m, wf) ==
    IF m.threw THEN m
    ELSE IF m.cachedState = Null THEN m
    ELSE IF wf THEN Throw([m EXCEPT !.puts = @ + 1])
    ELSE [m EXCEPT !.puts = @ + 1, !.kv = <<JSONstringify(m.cachedState[1])>>,
                   !.isDirty = FALSE]

\* saveIfDirty that leaves the dirty flag set after its write
saveKeepingDirty(m, wf) ==
    IF m.threw THEN m
    ELSE IF ~m.isDirty \/ m.cachedState = Null THEN m
    ELSE IF wf THEN Throw([m EXCEPT !.puts = @ + 1])
    ELSE [m EXCEPT !.puts = @ + 1, !.kv = <<JSONstringify(m.cachedState[1])>>]

\* saveIfDirty that clears the flag before it writes
saveIfDirtyFlagFirst(m, wf) ==
    IF m.threw THEN m
    ELSE IF ~m.isDirty \/ m.cachedState = Null THEN m
    ELSE IF wf THEN Throw([m EXCEPT !.puts = @ + 1, !.isDirty = FALSE])
    ELSE [m EXCEPT !.puts = @ + 1, !.kv = <<JSONstringify(m.cachedState[1])>>,
                   !.isDirty = FALSE]

saveIfDirty(m, wf) ==
    IF m.threw THEN m
    ELSE IF ~m.isDirty \/ m.cachedState = Null THEN m
    ELSE IF wf THEN Throw([m EXCEPT !.puts = @ + 1])
    ELSE [m EXCEPT !.puts = @ + 1, !.kv = <<JSONstringify(m.cachedState[1])>>,
                   !.isDirty = FALSE]

\* the return value of saveIfDirty(m, wf) when it does not throw
saveIfDirtyResult(m) == m.isDirty /\ m.cachedState # Null

\* saveState that updates the cache and leaves the stored value as it was
saveStateCacheOnly(m, state, wf) ==
    IF m.threw THEN m
    ELSE IF wf THEN Throw([m EXCEPT !.puts = @ + 1])
    ELSE [m EXCEPT !.puts = @ + 1, !.cachedState = <<state>>, !.isDirty = FALSE]

saveState(m, state, wf) ==
    IF m.threw THEN m
    ELSE IF wf THEN Throw([m EXCEPT !.puts = @ + 1])
    ELSE [m EXCEPT !.puts = @ + 1, !.kv = <<JSONstringify(state)>>,
                   !.cachedState = <<state>>, !.isDirty = FALSE]

\* state[source] ?? { ...DEFAULT_SOURCE_STATE }: every stored record holds both keys
getSourceState(m, source, rf) == getState(m, rf)

SourceStateOf(m, source) == m.cachedState[1][source]

\* a mutation that reaches the objects of both sources
SetBothSources(m, source, sourceState) ==
    [m EXCEPT !.cachedState = <<[key \in SourceKeys |-> sourceState]>>]

\* sourceState.<fields> = ...: mutation of the cached object in place
SetSource(m, source, sourceState) ==
    [m EXCEPT !.cachedState = <<[m.cachedState[1] EXCEPT ![source] = sourceState]>>]

\* the ids put behind the list instead of ahead of it
AppendAndTruncate(itemIds, postedIds) == Slice(postedIds \o itemIds, MAX_POSTED_IDS)

\* [...itemIds, ...sourceState.postedIds].slice(0, MAX_POSTED_IDS)
PrependAndTruncate(itemIds, postedIds) == Slice(itemIds \o postedIds, MAX_POSTED_IDS)

\* the assignments of a mark-as-posted operation without the one to postedIds
MarkedWithoutIds(sourceState, itemIds) ==
    [postedIds |-> sourceState.postedIds,
     lastUpdatedAt |-> Now,
     consecutiveFailures |-> 0]

\* the assignments of postedIds and lastUpdatedAt only
MarkedKeepingFailures(sourceState, itemIds) ==
    [postedIds |-> PrependAndTruncate(itemIds, sourceState.postedIds),
     lastUpdatedAt |-> Now,
     consecutiveFailures |-> sourceState.consecutiveFailures]

\* the three assignments shared by the four mark-as-posted operations
Marked(sourceState, itemIds) ==
    [postedIds |-> PrependAndTruncate(itemIds, sourceState.postedIds),
     lastUpdatedAt |-> Now,
     consecutiveFailures |-> 0]

isPostedSync(m) == IF m.threw \/ m.cachedState # Null THEN m ELSE Throw(m)

\* cachedState[source].postedIds.includes(itemId), on a loaded manager
includes(m, source, itemId) == itemId \in Range(SourceStateOf(m, source).postedIds)

isPosted(m, source, rf) == getSourceState(m, source, rf)

markAsPostedSync(m, source, itemId) ==
    IF m.threw THEN m
    ELSE IF m.cachedState = Null THEN Throw(m)
    ELSE [SetSource(m, source, Marked(SourceStateOf(m, source), <<itemId>>))
             EXCEPT !.isDirty = TRUE]

\* markManyAsPostedSync that looks at the list before it looks at the cache
markManyAsPostedSyncListFirst(m, source, itemIds) ==
    IF m.threw THEN m
    ELSE IF Len(itemIds) = 0 THEN m
    ELSE IF m.cachedState = Null THEN Throw(m)
    ELSE [SetSource(m, source, Marked(SourceStateOf(m, source), itemIds))
             EXCEPT !.isDirty = TRUE]

markManyAsPostedSync(m, source, itemIds) ==
    IF m.threw THEN m
    ELSE IF m.cachedState = Null THEN Throw(m)
    ELSE IF Len(itemIds) = 0 THEN m
    ELSE [SetSource(m, source, Marked(SourceStateOf(m, source), itemIds))
             EXCEPT !.isDirty = TRUE]

markAsPosted(m, source, itemId, rf, wf) ==
    LET m1 == getState(m, rf) IN
    IF m1.threw THEN m1
    ELSE LET m2 == SetSource(m1, source, Marked(SourceStateOf(m1, source), <<itemId>>))
         IN saveState(m2, m2.cachedState[1], wf)

\* markManyAsPosted without the test of the length of the list
markManyAsPostedUnchecked(m, source, itemIds, rf, wf) ==
    IF m.threw THEN m
    ELSE LET m1 == getState(m, rf) IN
         IF m1.threw THEN m1
         ELSE LET m2 == SetSource(m1, source, Marked(SourceStateOf(m1, source), itemIds))
              IN saveState(m2, m2.cachedState[1], wf)

markManyAsPosted(m, source, itemIds, rf, wf) ==
    IF m.threw \/ Len(itemIds) = 0 THEN m
    ELSE LET m1 == getState(m, rf) IN
         IF m1.threw THEN m1
         ELSE LET m2 == SetSource(m1, source, Marked(SourceStateOf(m1, source), itemIds))
              IN saveState(m2, m2.cachedState[1], wf)

\* a failure recorded as the first one, whatever the counter was
FailedOnce(sourceState) ==
    [sourceState EXCEPT !.consecutiveFailures = 1, !.lastUpdatedAt = Now]

\* consecutiveFailures += 1; lastUpdatedAt = now
Failed(sourceState) ==
    [sourceState EXCEPT !.consecutiveFailures = @ + 1, !.lastUpdatedAt = Now]

recordFailureSync(m, source) ==
    IF m.threw THEN m
    ELSE IF m.cachedState = Null THEN Throw(m)
    ELSE [SetSource(m, source, Failed(SourceStateOf(m, source))) EXCEPT !.isDirty = TRUE]

recordFailure(m, source, rf, wf) ==
    LET m1 == getState(m, rf) IN
    IF m1.threw THEN m1
    ELSE LET m2 == SetSource(m1, source, Failed(SourceStateOf(m1, source)))
         IN saveState(m2, m2.cachedState[1], wf)

\* the value recordFailure / recordFailureSync / getFailureCount(Sync) return
\* on the manager they leave
failureCount(m, source) == SourceStateOf(m, source).consecutiveFailures

\* lastUpdatedAt = now, the counter being kept
Touched(sourceState) == [sourceState EXCEPT !.lastUpdatedAt = Now]

\* consecutiveFailures = 0; lastUpdatedAt = now
Reset(sourceState) ==
    [sourceState EXCEPT !.consecutiveFailures = 0, !.lastUpdatedAt = Now]

\* resetFailuresSync without the test of the counter
resetFailuresSyncAlways(m, source) ==
    IF m.threw THEN m
    ELSE IF m.cachedState = Null THEN Throw(m)
    ELSE [SetSource(m, source, Reset(SourceStateOf(m, source)))
             EXCEPT !.isDirty = TRUE]

resetFailuresSync(m, source) ==
    IF m.threw THEN m
    ELSE IF m.cachedState = Null THEN Throw(m)
    ELSE IF SourceStateOf(m, source).consecutiveFailures > 0
         THEN [SetSource(m, source, Reset(SourceStateOf(m, source)))
                  EXCEPT !.isDirty = TRUE]
         ELSE m

resetFailures(m, source, rf, wf) ==
    LET m1 == getState(m, rf) IN
    IF m1.threw THEN m1
    ELSE IF SourceStateOf(m1, source).consecutiveFailures > 0
         THEN LET m2 == SetSource(m1, source, Reset(SourceStateOf(m1, source)))
              IN saveState(m2, m2.cachedState[1], wf)
         ELSE m1

getFailureCountSync(m) == IF m.threw \/ m.cachedState # Null THEN m ELSE Throw(m)

getFailureCount(m, source, rf) == getSourceState(m, source, rf)

\* a filter that looks at the newest posted id only
NotNewestPosted(postedIds, items) ==
    SelectSeq(items, LAMBDA item : item.id \notin Range(Slice(postedIds, 1)))

\* the first item of each id
RECURSIVE Unique(_)
Unique(items) ==
    IF items = <<>> THEN <<>>
    ELSE LET front == Unique(SubSeq(items, 1, Len(items) - 1))
             item == items[Len(items)]
         IN IF \E i \in DOMAIN front : front[i].id = item.id THEN front
            ELSE Append(front, item)

\* a filter that also drops the repetitions of an id in the list
NotPostedUnique(postedIds, items) ==
    Unique(SelectSeq(items, LAMBDA item : item.id \notin Range(postedIds)))

\* items.filter((item) => !postedSet.has(item.id))
NotPosted(postedIds, items) ==
    SelectSeq(items, LAMBDA item : item.id \notin Range(postedIds))

filterNewItemsSync(m) == IF m.threw \/ m.cachedState # Null THEN m ELSE Throw(m)

filterNewItems(m, source, rf) == getSourceState(m, source, rf)

\* the list filterNewItems / filterNewItemsSync return on the manager they leave
newItems(m, source, items) == NotPosted(SourceStateOf(m, source).postedIds, items)

\* clearAllState that deletes the record and keeps the cache and the flag
clearStoreOnly(m, df) ==
    IF m.threw THEN m
    ELSE IF df THEN Throw([m EXCEPT !.dels = @ + 1])
    ELSE [m EXCEPT !.dels = @ + 1, !.kv = Null]

clearAllState(m, df) ==
    IF m.threw THEN m
    ELSE IF df THEN Throw([m EXCEPT !.dels = @ + 1])
    ELSE [m EXCEPT !.dels = @ + 1, !.kv = Null, !.cachedState = Null,
                   !.isDirty = FALSE]

hasPendingChanges(m) == m.isDirty

(***************************************************************************)
(* State.                                                                   *)
(*   kv           the value under STATE_KEY in the KV namespace             *)
(*   cachedState, isDirty   the closure variables of the state manager of   *)
(*                each worker invocation                                     *)
(*   faulty       whether kv operations can reject in this behaviour         *)
(*   last         the last state-manager call made from outside: operation, *)
(*                arguments, outcome and the kv calls it made               *)
(***************************************************************************)
VARIABLES kv, cachedState, isDirty, faulty, last,
          pc, listed, allNewItems, results, writes, reports, status, published,
          fetched, rejected, contents, messages

(***************************************************************************)
(* State of the reconciliation cycles (processNewContent), per invocation:  *)
(*   pc           where the invocation is                                   *)
(*   listed       per source, the ids its fetch returned in this cycle      *)
(*   allNewItems  the local array of that name                              *)
(*   results      the PostResult[] postContentItems has built so far        *)
(*   writes       kv.put calls the invocation has made                      *)
(*   reports      tags of the Sentry.captureException calls it has made     *)
(*   messages     the Sentry.captureMessage calls it has made, in order:     *)
(*                the source tag and the id of the item of each              *)
(*   status       how the invocation ended: "ok", or "error" when it threw  *)
(*   fetched      per source, how the call of the source's API ended in     *)
(*                this cycle: "none" (not made yet), "ok" or "failed"       *)
(*   rejected     the kinds of kv call ("get", "put") that rejected in      *)
(*                this cycle                                                *)
(* the environment:                                                         *)
(*   contents     Null when the sources can return anything at each call,   *)
(*                else <<c>>, c being what the channel and the news site    *)
(*                hold: uploads, the ids of the playlist items newest       *)
(*                first, shorts, the ids among them of videos under 60      *)
(*                seconds, and news, the ids of the articles newest first   *)
(* and one history variable:                                                *)
(*   published    per source and id, about the last cycle that published    *)
(*                the id successfully: since, the number of ids of the      *)
(*                source published successfully in the cycles after it       *)
(*                (MAX_POSTED_IDS: that many or more, or never published),   *)
(*                and before, the number of ids of the source published      *)
(*                successfully before it in that cycle                       *)
(***************************************************************************)
vars == <<kv, cachedState, isDirty, faulty, last,
          pc, listed, allNewItems, results, writes, reports, status, published,
          fetched, rejected, contents, messages>>

managerVars == <<kv, cachedState, isDirty, faulty, last, contents>>

cycleVars == <<pc, listed, allNewItems, results, writes, reports, status, published,
               fetched, rejected, messages>>

\* the worker invocations that run one after the other: the scheduled ones
Procs == {1}

\* worker invocations that exist: the scheduled one and one started by
\* POST /trigger
Invocations == {1, 2}

\* the manager of invocation p, with its call counters at zero
ManagerOf(p) == Manager(kv, cachedState[p], isDirty[p])

\* the manager m becomes the state of invocation p and of the store
Install(p, m) ==
    /\ kv' = m.kv
    /\ cachedState' = [cachedState EXCEPT ![p] = m.cachedState]
    /\ isDirty' = [isDirty EXCEPT ![p] = m.isDirty]

\* outcomes a kv call can have: it rejects only in a faulty behaviour
Rejects == IF faulty THEN BOOLEAN ELSE {FALSE}

\* outcomes of the kv.get of a method that reads through getState: the call
\* is made only when nothing is cached
ReadRejects == IF cachedState[1] = Null THEN Rejects ELSE {FALSE}

NoCall == [op |-> "none", source |-> "none", ids |-> <<>>, ret |-> <<>>,
           threw |-> FALSE, gets |-> 0, puts |-> 0]

\* the record of a call that left manager m; ret is <<>> when it threw
Called(op, source, ids, m, ret) ==
    [op |-> op, source |-> source, ids |-> ids,
     ret |-> IF m.threw THEN <<>> ELSE ret,
     threw |-> m.threw, gets |-> m.gets, puts |-> m.puts]

IdLists(source) == SeqsUpTo(CallerIds(source), MaxIdList)

(***************************************************************************)
(* Calls on the state manager of invocation 1, one action per method.       *)
(***************************************************************************)
GetState ==
    \E rf \in ReadRejects :
        LET m == getState(ManagerOf(1), rf) IN
        /\ Install(1, m)
        /\ last' = Called("getState", "none", <<>>, m, m.cachedState)
        /\ UNCHANGED <<faulty, contents, cycleVars>>

LoadState ==
    \E rf \in Rejects :
        LET m == loadState(ManagerOf(1), rf) IN
        /\ Install(1, m)
        /\ last' = Called("loadState", "none", <<>>, m, m.cachedState)
        /\ UNCHANGED <<faulty, contents, cycleVars>>

SaveIfDirty ==
    \E wf \in Rejects :
        LET m == saveIfDirty(ManagerOf(1), wf) IN
        /\ Install(1, m)
        /\ last' = Called("saveIfDirty", "none", <<>>, m,
                          <<saveIfDirtyResult(ManagerOf(1))>>)
        /\ UNCHANGED <<faulty, contents, cycleVars>>

IsPostedSync ==
    \E source \in SourceKeys : \E itemId \in CallerIds(source) :
        LET m == isPostedSync(ManagerOf(1)) IN
        /\ Install(1, m)
        /\ last' = Called("isPostedSync", source, <<itemId>>, m,
                          <<includes(m, source, itemId)>>)
        /\ UNCHANGED <<faulty, contents, cycleVars>>

IsPosted ==
    \E source \in SourceKeys : \E itemId \in CallerIds(source) : \E rf \in ReadRejects :
        LET m == isPosted(ManagerOf(1), source, rf) IN
        /\ Install(1, m)
        /\ last' = Called("isPosted", source, <<itemId>>, m,
                          <<includes(m, source, itemId)>>)
        /\ UNCHANGED <<faulty, contents, cycleVars>>

MarkAsPostedSync ==
    \E source \in SourceKeys : \E itemId \in CallerIds(source) :
        LET m == markAsPostedSync(ManagerOf(1), source, itemId) IN
        /\ Install(1, m)
        /\ last' = Called("markAsPostedSync", source, <<itemId>>, m, <<>>)
        /\ UNCHANGED <<faulty, contents, cycleVars>>

MarkManyAsPostedSync ==
    \E source \in SourceKeys : \E itemIds \in IdLists(source) :
        LET m == markManyAsPostedSync(ManagerOf(1), source, itemIds) IN
        /\ Install(1, m)
        /\ last' = Called("markManyAsPostedSync", source, itemIds, m, <<>>)
        /\ UNCHANGED <<faulty, contents, cycleVars>>

MarkAsPosted ==
    \E source \in SourceKeys : \E itemId \in CallerIds(source) :
    \E rf \in ReadRejects, wf \in Rejects :
        LET m == markAsPosted(ManagerOf(1), source, itemId, rf, wf) IN
        /\ Install(1, m)
        /\ last' = Called("markAsPosted", source, <<itemId>>, m, <<>>)
        /\ UNCHANGED <<faulty, contents, cycleVars>>

MarkManyAsPosted ==
    \E source \in SourceKeys : \E itemIds \in IdLists(source) :
    \E rf \in ReadRejects, wf \in Rejects :
        LET m == markManyAsPosted(ManagerOf(1), source, itemIds, rf, wf) IN
        /\ Install(1, m)
        /\ last' = Called("markManyAsPosted", source, itemIds, m, <<>>)
        /\ UNCHANGED <<faulty, contents, cycleVars>>

RecordFailureSync ==
    \E source \in SourceKeys :
        LET m == recordFailureSync(ManagerOf(1), source) IN
        /\ cachedState[1] # Null =>
               SourceStateOf(ManagerOf(1), source).consecutiveFailures < MaxFailures
        /\ Install(1, m)
        /\ last' = Called("recordFailureSync", source, <<>>, m,
                          <<failureCount(m, source)>>)
        /\ UNCHANGED <<faulty, contents, cycleVars>>

RecordFailure ==
    \E source \in SourceKeys : \E rf \in ReadRejects, wf \in Rejects :
        LET m == recordFailure(ManagerOf(1), source, rf, wf) IN
        /\ StoredOrDefault(kv)[source].consecutiveFailures < MaxFailures
        /\ cachedState[1] # Null =>
               SourceStateOf(ManagerOf(1), source).consecutiveFailures < MaxFailures
        /\ Install(1, m)
        /\ last' = Called("recordFailure", source, <<>>, m,
                          <<failureCount(m, source)>>)
        /\ UNCHANGED <<faulty, contents, cycleVars>>

ResetFailuresSync ==
    \E source \in SourceKeys :
        LET m == resetFailuresSync(ManagerOf(1), source) IN
        /\ Install(1, m)
        /\ last' = Called("resetFailuresSync", source, <<>>, m, <<>>)
        /\ UNCHANGED <<faulty, contents, cycleVars>>

ResetFailures ==
    \E source \in SourceKeys : \E rf \in ReadRejects, wf \in Rejects :
        LET m == resetFailures(ManagerOf(1), source, rf, wf) IN
        /\ Install(1, m)
        /\ last' = Called("resetFailures", source, <<>>, m, <<>>)
        /\ UNCHANGED <<faulty, contents, cycleVars>>

GetFailureCountSync ==
    \E source \in SourceKeys :
        LET m == getFailureCountSync(ManagerOf(1)) IN
        /\ Install(1, m)
        /\ last' = Called("getFailureCountSync", source, <<>>, m,
                          <<failureCount(m, source)>>)
        /\ UNCHANGED <<faulty, contents, cycleVars>>

GetFailureCount ==
    \E source \in SourceKeys : \E rf \in ReadRejects :
        LET m == getFailureCount(ManagerOf(1), source, rf) IN
        /\ Install(1, m)
        /\ last' = Called("getFailureCount", source, <<>>, m,
                          <<failureCount(m, source)>>)
        /\ UNCHANGED <<faulty, contents, cycleVars>>

\* the items a caller passes to filterNewItems: objects with an id
ItemLists(source) ==
    {[i \in DOMAIN ids |-> [id |-> ids[i]]] : ids \in SeqsUpTo(CallerIds(source), MaxItems)}

IdsOfItems(items) == [i \in DOMAIN items |-> items[i].id]

FilterNewItemsSync ==
    \E source \in SourceKeys : \E items \in ItemLists(source) :
        LET m == filterNewItemsSync(ManagerOf(1)) IN
        /\ Install(1, m)
        /\ last' = Called("filterNewItemsSync", source, IdsOfItems(items), m,
                          IdsOfItems(newItems(m, source, items)))
        /\ UNCHANGED <<faulty, contents, cycleVars>>

FilterNewItems ==
    \E source \in SourceKeys : \E items \in ItemLists(source) : \E rf \in ReadRejects :
        LET m == filterNewItems(ManagerOf(1), source, rf) IN
        /\ Install(1, m)
        /\ last' = Called("filterNewItems", source, IdsOfItems(items), m,
                          IdsOfItems(newItems(m, source, items)))
        /\ UNCHANGED <<faulty, contents, cycleVars>>

\* createStateManager(kv) anew: the next invocation's manager over the same
\* namespace, nothing cached
CreateStateManager ==
    \* a manager with nothing cached is already as a new one
    /\ cachedState[1] # Null
    /\ Install(1, Manager(kv, Null, FALSE))
    /\ last' = NoCall
    /\ UNCHANGED <<faulty, contents, cycleVars>>

ClearAllState ==
    \E df \in Rejects :
        LET m == clearAllState(ManagerOf(1), df) IN
        /\ Install(1, m)
        /\ last' = Called("clearAllState", "none", <<>>, m, <<>>)
        /\ UNCHANGED <<faulty, contents, cycleVars>>

HasPendingChanges ==
    /\ last' = Called("hasPendingChanges", "none", <<>>, ManagerOf(1),
                      <<hasPendingChanges(ManagerOf(1))>>)
    /\ UNCHANGED <<kv, cachedState, isDirty, faulty, contents, cycleVars>>


(***************************************************************************)
(* Content of the two sources.  A fetch returns a list of distinct ids of   *)
(* the source, in any order, of at most maxResults videos                   *)
(* (videos.slice(0, maxResults)) or pageSize articles.  publishedAt is a    *)
(* fixed attribute of the item; items of one source and items of the two    *)
(* sources can have the same one.                                           *)
(***************************************************************************)
VideoPublishedAt(videoId) == IF videoId % 2 = 1 THEN 2 ELSE 3

ArticlePublishedAt(postId) == IF postId % 2 = 1 THEN 2 ELSE 3

videoToContentItem(videoId) ==
    [id |-> videoId, type |-> "video", source |-> "youtube",
     publishedAt |-> VideoPublishedAt(videoId)]

articleToContentItem(postId) ==
    [id |-> postId, type |-> "article", source |-> "wwfc-news",
     publishedAt |-> ArticlePublishedAt(postId)]

Distinct(s) == \A i, j \in DOMAIN s : s[i] = s[j] => i = j

\* const fetchCount = filterShortVideos ? Math.min(maxResults * 3, 50) : maxResults
fetchCount(count) == IF count * 3 < 50 THEN count * 3 ELSE 50

\* fetchPlaylistVideos(playlistId, count): the first fetchCount playlist
\* items, without the videos under 60 seconds, cut to count
fetchPlaylistVideos(channel, count) ==
    Slice(SelectSeq(Slice(channel.uploads, fetchCount(count)),
                    LAMBDA videoId : videoId \notin channel.shorts),
          count)

\* fetchArticles({ pageSize: size }): the size newest articles
fetchArticles(site, size) == Slice(site.news, size)

\* whether a call of a source's API returns: every call of a reliable source
\* does
Answers == IF contents = Null \/ ~contents[1].reliable THEN BOOLEAN ELSE {TRUE}

\* what fetchChannelUploads(channelId, count) can return
UploadsFetched(count) ==
    IF contents = Null THEN {f \in SeqsUpTo(1..NumVideoIds, count) : Distinct(f)}
    ELSE {fetchPlaylistVideos(contents[1], count)}

\* what fetchArticles({ pageSize: size }) can return
ArticlesFetched(size) ==
    IF contents = Null THEN {f \in SeqsUpTo(1..NumArticleIds, size) : Distinct(f)}
    ELSE {fetchArticles(contents[1], size)}

\* an insertion that ignores publishedAt
InsertFirst(item, sorted) == <<item>> \o sorted

\* an insertion in front of the items of the same publishedAt
InsertBeforeEqual(item, sorted) ==
    LET k == Cardinality({i \in DOMAIN sorted : sorted[i].publishedAt < item.publishedAt})
    IN SubSeq(sorted, 1, k) \o <<item>> \o SubSeq(sorted, k + 1, Len(sorted))

\* items.sort((a, b) => a.publishedAt.getTime() - b.publishedAt.getTime()):
\* a stable sort, ascending
InsertByPublishedAt(item, sorted) ==
    LET k == Cardinality({i \in DOMAIN sorted : sorted[i].publishedAt <= item.publishedAt})
    IN SubSeq(sorted, 1, k) \o <<item>> \o SubSeq(sorted, k + 1, Len(sorted))

RECURSIVE SortByPublishedAt(_)
SortByPublishedAt(items) ==
    IF items = <<>> THEN <<>>
    ELSE InsertByPublishedAt(items[Len(items)],
                             SortByPublishedAt(SubSeq(items, 1, Len(items) - 1)))

\* what fetchNewVideos / fetchNewArticles return on the manager m that
\* filterNewItems left
newSorted(m, source, items) == SortByPublishedAt(newItems(m, source, items))

\* the ids of all the results of one source, successful or not
AttemptedIds(res, itemSource) ==
    LET attempted == SelectSeq(res, LAMBDA r : r.item.source = itemSource)
    IN [i \in DOMAIN attempted |-> attempted[i].item.id]

\* the ids of the successful results of one source, in result order
SuccessfulIds(res, itemSource) ==
    LET successful == SelectSeq(res, LAMBDA r : r.success /\ r.item.source = itemSource)
    IN [i \in DOMAIN successful |-> successful[i].item.id]

\* an exception that no catch block stops
Uncaught(m) == m

\* an exception caught by a catch block no longer propagates
Caught(m) == [m EXCEPT !.threw = FALSE]

\* the test on reaching the threshold only, and from one failure earlier
onReachingThreshold(count) == count = ALERT_FAILURE_THRESHOLD

beforeThreshold(count) == count >= ALERT_FAILURE_THRESHOLD - 1

\* if (failureCount >= ALERT_FAILURE_THRESHOLD)
atThreshold(count) == count >= ALERT_FAILURE_THRESHOLD

\* a test that never finds the array empty
someNewContent(items) == FALSE

\* if (allNewItems.length === 0)
noNewContent(items) == Len(items) = 0

\* a catch block that makes no report
captureNothing(captured) == captured

\* Sentry.captureException(error, { tags: { source: 'bluesky' } })
captureBlueskyException(captured) == captured \cup {"bluesky"}

\* the counter recordFailure would increment: the cached one, else the stored
CounterBefore(p, source) ==
    IF cachedState[p] # Null THEN cachedState[p][1][source].consecutiveFailures
    ELSE StoredOrDefault(kv)[source].consecutiveFailures

NothingListed == [source \in SourceKeys |-> {}]

NothingFetched == [source \in SourceKeys |-> "none"]

NeverPublished == [since |-> MAX_POSTED_IDS, before |-> 0]

CycleInit ==
    /\ pc = [p \in Invocations |-> "idle"]
    /\ allNewItems = [p \in Invocations |-> <<>>]
    /\ results = [p \in Invocations |-> <<>>]
    /\ writes = [p \in Invocations |-> 0]
    /\ reports = [p \in Invocations |-> {}]
    /\ messages = [p \in Invocations |-> <<>>]
    /\ status = [p \in Invocations |-> "none"]
    /\ listed = [p \in Invocations |-> NothingListed]
    /\ fetched = [p \in Invocations |-> NothingFetched]
    /\ rejected = [p \in Invocations |-> {}]
    /\ published = [source \in SourceKeys |->
                       [id \in (IF source = "youtube" THEN 1..NumVideoIds
                                ELSE 1..NumArticleIds) |-> NeverPublished]]

\* const stateManager = createStateManager(env.POSTED_ITEMS); allNewItems = []
StartCycle(p) ==
    /\ pc[p] = "idle"
    /\ pc' = [pc EXCEPT ![p] = "fetchVideos"]
    /\ cachedState' = [cachedState EXCEPT ![p] = Null]
    /\ isDirty' = [isDirty EXCEPT ![p] = FALSE]
    /\ allNewItems' = [allNewItems EXCEPT ![p] = <<>>]
    /\ results' = [results EXCEPT ![p] = <<>>]
    /\ writes' = [writes EXCEPT ![p] = 0]
    /\ reports' = [reports EXCEPT ![p] = {}]
    /\ messages' = [messages EXCEPT ![p] = <<>>]
    /\ status' = [status EXCEPT ![p] = "none"]
    /\ listed' = [listed EXCEPT ![p] = NothingListed]
    /\ fetched' = [fetched EXCEPT ![p] = NothingFetched]
    /\ rejected' = [rejected EXCEPT ![p] = {}]
    /\ UNCHANGED <<kv, faulty, last, published, contents>>

(***************************************************************************)
(* One try / catch block of processNewContent around the fetch of a source: *)
(* fetch, filterNewItems, sort, push, resetFailures; on any exception       *)
(* recordFailure and, from ALERT_FAILURE_THRESHOLD on, a report.  An        *)
(* exception of recordFailure leaves processNewContent.                     *)
(***************************************************************************)
FetchBlock(p, source, tag, items, fetchOk, rf1, wf1, rf2, wf2, final) ==
    LET m0 == ManagerOf(p)
        mFiltered == IF fetchOk THEN filterNewItems(m0, source, rf1) ELSE Throw(m0)
        pushed == IF mFiltered.threw THEN <<>> ELSE newSorted(mFiltered, source, items)
        mTry == resetFailures(mFiltered, source, FALSE, wf1)
        mCatch == IF mTry.threw THEN recordFailure(Caught(mTry), source, rf2, wf2)
                  ELSE mTry
        alert == /\ mTry.threw
                 /\ ~mCatch.threw
                 /\ atThreshold(failureCount(mCatch, source))
        all == allNewItems[p] \o pushed
        \* a put was attempted by recordFailure
        putInCatch == mCatch.puts > mTry.puts
        getRejected == \/ fetchOk /\ mFiltered.threw
                       \/ mTry.threw /\ mCatch.threw /\ ~putInCatch
        putRejected == \/ ~mFiltered.threw /\ mTry.threw
                       \/ mTry.threw /\ mCatch.threw /\ putInCatch
    IN  /\ mTry.threw => CounterBefore(p, source) < MaxFailures
        /\ fetched' = [fetched EXCEPT ![p][source] = IF fetchOk THEN "ok" ELSE "failed"]
        /\ rejected' = [rejected EXCEPT ![p] =
                           @ \cup (IF getRejected THEN {"get"} ELSE {})
                             \cup (IF putRejected THEN {"put"} ELSE {})]
        /\ Install(p, mCatch)
        /\ writes' = [writes EXCEPT ![p] = @ + mCatch.puts]
        /\ reports' = [reports EXCEPT ![p] = IF alert THEN @ \cup {tag} ELSE @]
        /\ IF mCatch.threw
           THEN \* the exception leaves processNewContent
                /\ pc' = [pc EXCEPT ![p] = "done"]
                /\ status' = [status EXCEPT ![p] = "error"]
                /\ allNewItems' = [allNewItems EXCEPT ![p] = all]
           ELSE IF ~final
           THEN /\ pc' = [pc EXCEPT ![p] = "fetchArticles"]
                /\ allNewItems' = [allNewItems EXCEPT ![p] = all]
                /\ UNCHANGED status
           ELSE IF noNewContent(all)
           THEN \* if (allNewItems.length === 0) return
                /\ pc' = [pc EXCEPT ![p] = "done"]
                /\ status' = [status EXCEPT ![p] = "ok"]
                /\ allNewItems' = [allNewItems EXCEPT ![p] = all]
           ELSE \* allNewItems.sort(...)
                /\ pc' = [pc EXCEPT ![p] = "createClient"]
                /\ allNewItems' = [allNewItems EXCEPT ![p] = SortByPublishedAt(all)]
                /\ UNCHANGED status
        /\ listed' = [listed EXCEPT ![p][source] = {items[i].id : i \in DOMAIN items}]
        /\ UNCHANGED <<faulty, last, results, published, contents, messages>>

FetchVideos(p) ==
    /\ pc[p] = "fetchVideos"
    /\ \E fetchOk \in Answers :
       \E feed \in (IF fetchOk THEN UploadsFetched(maxResults) ELSE {<<>>}) :
       \E rf1 \in Rejects, wf1 \in Rejects, rf2 \in Rejects, wf2 \in Rejects :
          /\ FetchBlock(p, "youtube", "youtube",
                        [i \in DOMAIN feed |-> videoToContentItem(feed[i])],
                        fetchOk, rf1, wf1, rf2, wf2, FALSE)

\* the second try / catch block, the empty check and the sort that follow it
FetchArticles(p) ==
    /\ pc[p] = "fetchArticles"
    /\ \E fetchOk \in Answers :
       \E feed \in (IF fetchOk THEN ArticlesFetched(pageSize) ELSE {<<>>}) :
       \E rf1 \in Rejects, wf1 \in Rejects, rf2 \in Rejects, wf2 \in Rejects :
          /\ FetchBlock(p, "wwfcNews", "wwfc-news",
                        [i \in DOMAIN feed |-> articleToContentItem(feed[i])],
                        fetchOk, rf1, wf1, rf2, wf2, TRUE)

\* await createBlueskyClient(...): the login succeeds or throws; the catch
\* block reports with tag bluesky and rethrows
CreateClient(p) ==
    /\ pc[p] = "createClient"
    /\ \E loginOk \in BOOLEAN :
          IF loginOk
          THEN /\ pc' = [pc EXCEPT ![p] = "posting"]
               /\ UNCHANGED <<reports, status>>
          ELSE /\ pc' = [pc EXCEPT ![p] = "done"]
               /\ reports' = [reports EXCEPT ![p] = captureBlueskyException(@)]
               /\ status' = [status EXCEPT ![p] = "error"]
    /\ UNCHANGED <<managerVars, listed, allNewItems, results, writes, published,
                   fetched, rejected, messages>>

\* one iteration of the loop of postContentItems: postContentItem returns a
\* result with success true or false and never throws
PostItem(p) ==
    /\ pc[p] = "posting"
    /\ Len(results[p]) < Len(allNewItems[p])
    /\ \E success \in BOOLEAN :
          results' = [results EXCEPT ![p] =
                         Append(@, [item |-> allNewItems[p][Len(@) + 1],
                                    success |-> success])]
    /\ UNCHANGED <<managerVars, pc, listed, allNewItems, writes, reports, status, published,
                   fetched, rejected, messages>>

\* the ids of itemSource published successfully in res are published by this
\* cycle; the others have that many more ids published after them
PublishedAfter(old, res, itemSource) ==
    LET ok == SelectSeq(res, LAMBDA r : r.success /\ r.item.source = itemSource)
        ids == [i \in DOMAIN ok |-> ok[i].item.id]
    IN
    [id \in DOMAIN old |->
        IF id \in Range(ids)
        THEN [since |-> 0,
              before |-> Cardinality({k \in DOMAIN ids :
                                         \A j \in 1..k : ids[j] # id})]
        ELSE IF old[id].since + Len(ids) >= MAX_POSTED_IDS THEN NeverPublished
        ELSE [old[id] EXCEPT !.since = @ + Len(ids)]]

\* a report of the first failed result only
captureFirstMessage(res) ==
    LET failed == SelectSeq(res, LAMBDA r : ~r.success)
    IN [i \in DOMAIN Slice(failed, 1) |->
           [source |-> failed[i].item.source, itemId |-> failed[i].item.id]]

\* the loop of processPostResults: Sentry.captureMessage for each result
\* that is not a success, with the tag source and the extra itemId
captureMessages(res) ==
    LET failed == SelectSeq(res, LAMBDA r : ~r.success)
    IN [i \in DOMAIN failed |->
           [source |-> failed[i].item.source, itemId |-> failed[i].item.id]]

\* a first result exists
firstItemPosted(items, res) == Len(res) > 0

\* a loop that ends at the first failed result
returnedOrFailed(items, res) ==
    \/ Len(res) = Len(items)
    \/ Len(res) > 0 /\ ~res[Len(res)].success

\* const results = await postContentItems(allNewItems, blueskyClient) has
\* returned: the loop has pushed a result for every item
postContentItemsReturned(items, res) == Len(res) = Len(items)

\* processPostResults(results, stateManager), and the catch block around it
ProcessPostResults(p) ==
    /\ pc[p] = "posting"
    /\ postContentItemsReturned(allNewItems[p], results[p])
    /\ \E wf1 \in Rejects, wf2 \in Rejects :
          LET successfulVideos == SuccessfulIds(results[p], "youtube")
              successfulArticles == SuccessfulIds(results[p], "wwfc-news")
              m1 == markManyAsPosted(ManagerOf(p), "youtube", successfulVideos,
                                     FALSE, wf1)
              m2 == markManyAsPosted(m1, "wwfcNews", successfulArticles, FALSE, wf2)
          IN  /\ Install(p, m2)
              /\ writes' = [writes EXCEPT ![p] = @ + m2.puts]
              /\ reports' = [reports EXCEPT ![p] =
                                IF m2.threw THEN captureBlueskyException(@) ELSE @]
              /\ status' = [status EXCEPT ![p] = IF m2.threw THEN "error" ELSE "ok"]
              /\ rejected' = [rejected EXCEPT ![p] =
                                 IF m2.threw THEN @ \cup {"put"} ELSE @]
    /\ published' = [published EXCEPT
                        !.youtube = PublishedAfter(@, results[p], "youtube"),
                        !.wwfcNews = PublishedAfter(@, results[p], "wwfc-news")]
    /\ messages' = [messages EXCEPT ![p] = captureMessages(results[p])]
    /\ pc' = [pc EXCEPT ![p] = "done"]
    /\ UNCHANGED <<faulty, last, listed, allNewItems, results, fetched, contents>>

\* the invocation is over: its locals and its state manager are gone
Finish(p) ==
    /\ pc[p] = "done"
    /\ pc' = [pc EXCEPT ![p] = "idle"]
    /\ cachedState' = [cachedState EXCEPT ![p] = Null]
    /\ isDirty' = [isDirty EXCEPT ![p] = FALSE]
    /\ allNewItems' = [allNewItems EXCEPT ![p] = <<>>]
    /\ results' = [results EXCEPT ![p] = <<>>]
    /\ writes' = [writes EXCEPT ![p] = 0]
    /\ reports' = [reports EXCEPT ![p] = {}]
    /\ messages' = [messages EXCEPT ![p] = <<>>]
    /\ status' = [status EXCEPT ![p] = "none"]
    /\ listed' = [listed EXCEPT ![p] = NothingListed]
    /\ fetched' = [fetched EXCEPT ![p] = NothingFetched]
    /\ rejected' = [rejected EXCEPT ![p] = {}]
    \* kv calls reject in the cycle of one invocation at most
    /\ faulty' = (faulty /\ rejected[p] = {})
    /\ UNCHANGED <<kv, last, published, contents>>

\* videosToMark / articlesToMark that skip the latest item in any case
allButLatest(fetchedIds, skipLatest) ==
    IF Len(fetchedIds) > 0 THEN Tail(fetchedIds) ELSE fetchedIds

\* videosToMark / articlesToMark: without the first item if skipLatest
toMark(fetchedIds, skipLatest) ==
    IF skipLatest /\ Len(fetchedIds) > 0 THEN Tail(fetchedIds) ELSE fetchedIds

(***************************************************************************)
(* initializeState(env, { skipLatest }), the handler of POST /initialize:   *)
(* with a state manager of its own it marks the videos, then the articles,  *)
(* that the sources return now; an exception of a fetch or of the store     *)
(* ends it, the ids marked before staying marked.  It runs while no cycle   *)
(* does.                                                                    *)
(***************************************************************************)
Initialize(p) ==
    /\ pc[p] = "idle"
    /\ \E skipLatest \in BOOLEAN, videosOk \in Answers, articlesOk \in Answers :
       \E videos \in UploadsFetched(initializeMaxResults) :
       \E articles \in ArticlesFetched(initializePageSize) :
       \E rf \in Rejects, wf1 \in Rejects, wf2 \in Rejects :
          LET m0 == Manager(kv, Null, FALSE)
              videoIds == toMark(videos, skipLatest)
              articleIds == toMark(articles, skipLatest)
              mVideos == IF videosOk THEN markManyAsPosted(m0, "youtube", videoIds, rf, wf1)
                         ELSE Throw(m0)
              mArticles == IF mVideos.threw \/ articlesOk
                           THEN markManyAsPosted(mVideos, "wwfcNews", articleIds, rf, wf2)
                           ELSE Throw(mVideos)
          IN  /\ kv' = mArticles.kv
              /\ last' = Called("initializeState", "none", <<>>, mArticles,
                                <<[skipLatest |-> skipLatest,
                                   youtube |-> Len(videoIds),
                                   wwfcNews |-> Len(articleIds)]>>)
    /\ UNCHANGED <<cachedState, isDirty, faulty, contents, cycleVars>>

(***************************************************************************)
(* Spec: reconciliation cycles run one after another (the scheduled         *)
(* handler), over a namespace that is empty at first and whose calls        *)
(* never reject.                                                            *)
(***************************************************************************)
Init ==
    /\ kv = Null
    /\ cachedState = [p \in Invocations |-> Null]
    /\ isDirty = [p \in Invocations |-> FALSE]
    /\ faulty = FALSE
    /\ last = NoCall
    /\ contents = Null
    /\ CycleInit

Next ==
    \E p \in Procs :
        \/ StartCycle(p)
        \/ FetchVideos(p)
        \/ FetchArticles(p)
        \/ CreateClient(p)
        \/ PostItem(p)
        \/ ProcessPostResults(p)
        \/ Finish(p)

Spec == Init /\ [][Next]_vars

(***************************************************************************)
(* SpecSM: state managers created one after the other over an initially     *)
(* empty namespace whose calls never reject; the load, save, posted-id and  *)
(* clear methods are called in any order.                                   *)
(***************************************************************************)
NextSM ==
    \/ CreateStateManager
    \/ GetState
    \/ LoadState
    \/ SaveIfDirty
    \/ IsPostedSync
    \/ IsPosted
    \/ MarkAsPostedSync
    \/ MarkManyAsPostedSync
    \/ MarkAsPosted
    \/ MarkManyAsPosted
    \/ ClearAllState
    \/ HasPendingChanges

SpecSM == Init /\ [][NextSM]_vars

(***************************************************************************)
(* SpecFN: the same with the filter methods, the list being filled by      *)
(* markAsPosted.                                                            *)
(***************************************************************************)
NextFN ==
    \/ CreateStateManager
    \/ LoadState
    \/ MarkAsPosted
    \/ FilterNewItemsSync
    \/ FilterNewItems
    \/ ClearAllState

SpecFN == Init /\ [][NextFN]_vars

(***************************************************************************)
(* SpecFC: state managers over a namespace whose calls can reject; the      *)
(* load, save, failure-counter and clear methods are called in any order.   *)
(***************************************************************************)
InitSM ==
    /\ kv = Null
    /\ cachedState = [p \in Invocations |-> Null]
    /\ isDirty = [p \in Invocations |-> FALSE]
    /\ faulty = TRUE
    /\ last = NoCall
    /\ contents = Null
    /\ CycleInit

NextFC ==
    \/ CreateStateManager
    \/ GetState
    \/ LoadState
    \/ SaveIfDirty
    \/ RecordFailureSync
    \/ RecordFailure
    \/ ResetFailuresSync
    \/ ResetFailures
    \/ GetFailureCountSync
    \/ GetFailureCount
    \/ ClearAllState
    \/ HasPendingChanges

SpecFC == InitSM /\ [][NextFC]_vars

(***************************************************************************)
(* SpecMK: state managers over a namespace whose calls never reject and     *)
(* that holds at first the record that failed fetches have left, nothing    *)
(* being posted yet; the load, save and clear methods and the methods that  *)
(* mark lists of ids are called in any order.                               *)
(***************************************************************************)
\* the source state after failures fetch failures in a row and nothing else
AfterFailures(failures) ==
    IF failures = 0 THEN DEFAULT_SOURCE_STATE
    ELSE [DEFAULT_SOURCE_STATE EXCEPT !.consecutiveFailures = failures,
                                      !.lastUpdatedAt = Now]

InitMK ==
    /\ \E failures \in 0..MaxFailures :
          kv = <<JSONstringify([youtube |-> AfterFailures(failures),
                                wwfcNews |-> AfterFailures(MaxFailures - failures)])>>
    /\ cachedState = [p \in Invocations |-> Null]
    /\ isDirty = [p \in Invocations |-> FALSE]
    /\ faulty = FALSE
    /\ last = NoCall
    /\ contents = Null
    /\ CycleInit

NextMK ==
    \/ CreateStateManager
    \/ GetState
    \/ LoadState
    \/ SaveIfDirty
    \/ MarkManyAsPostedSync
    \/ MarkManyAsPosted
    \/ ClearAllState
    \/ HasPendingChanges

SpecMK == InitMK /\ [][NextMK]_vars

(***************************************************************************)
(* SpecIN: reconciliation cycles and initializations, one after another,    *)
(* over sources whose contents do not change and that answer every call.    *)
(***************************************************************************)
\* a channel with one short video at most and a news site
SourceContents ==
    [uploads : {f \in SeqsUpTo(1..NumVideoIds, MaxUploads) : Distinct(f)},
     shorts : {{}} \cup {{videoId} : videoId \in 1..NumVideoIds},
     news : {f \in SeqsUpTo(1..NumArticleIds, pageSize) : Distinct(f)},
     reliable : {TRUE}]

InitIN ==
    /\ kv = Null
    /\ cachedState = [p \in Invocations |-> Null]
    /\ isDirty = [p \in Invocations |-> FALSE]
    /\ faulty = FALSE
    /\ last = NoCall
    /\ \E c \in SourceContents : contents = <<c>>
    /\ CycleInit

NextIN ==
    \/ Next
    \/ \E p \in Procs : Initialize(p)

SpecIN == InitIN /\ [][NextIN]_vars

(***************************************************************************)
(* SpecRace: a scheduled invocation and one started by POST /trigger run    *)
(* processNewContent once each, their steps interleaved in any order, each  *)
(* with its own state manager over the same namespace. The sources hold     *)
(* the same contents for both, and any call of their APIs can fail.         *)
(***************************************************************************)
\* a channel without short videos and a news site, neither reliable
RaceContents ==
    [uploads : {f \in SeqsUpTo(1..NumVideoIds, maxResults) : Distinct(f)},
     shorts : {{}},
     news : {f \in SeqsUpTo(1..NumArticleIds, pageSize) : Distinct(f)},
     reliable : {FALSE}]

InitRace ==
    /\ kv = Null
    /\ cachedState = [p \in Invocations |-> Null]
    /\ isDirty = [p \in Invocations |-> FALSE]
    /\ faulty = FALSE
    /\ last = NoCall
    /\ \E c \in RaceContents : contents = <<c>>
    /\ CycleInit

NextRace ==
    \E p \in Invocations :
        \/ StartCycle(p)
        \/ FetchVideos(p)
        \/ FetchArticles(p)
        \/ CreateClient(p)
        \/ PostItem(p)
        \/ ProcessPostResults(p)

SpecRace == InitRace /\ [][NextRace]_vars

(***************************************************************************)
(* SpecSync: state managers created one after the other over a namespace    *)
(* whose calls never reject and that holds at first the record that failed  *)
(* fetches have left; a session loads the state or clears it at any time,   *)
(* and calls the Sync methods while it holds no state.                      *)
(***************************************************************************)
NotLoaded == cachedState[1] = Null

NextSync ==
    \/ CreateStateManager
    \/ LoadState
    \/ ClearAllState
    \/ NotLoaded /\ IsPostedSync
    \/ NotLoaded /\ MarkAsPostedSync
    \/ NotLoaded /\ MarkManyAsPostedSync
    \/ NotLoaded /\ RecordFailureSync
    \/ NotLoaded /\ ResetFailuresSync
    \/ NotLoaded /\ GetFailureCountSync
    \/ NotLoaded /\ FilterNewItemsSync

SpecSync == InitMK /\ [][NextSync]_vars

(***************************************************************************)
(* SpecLive: the reconciliation cycles of the scheduled invocations, one    *)
(* after the other for ever, over sources of fixed contents whose calls can *)
(* fail.  The schedule starts a cycle again and again and no await of a     *)
(* cycle lasts for ever; the fetch of each source, the login and the        *)
(* publish of an item do not fail for ever.                                 *)
(***************************************************************************)
Fairness ==
    \A p \in Procs :
        /\ WF_vars(StartCycle(p))
        /\ WF_vars(Finish(p))
        \* the fetch blocks and processPostResults end
        /\ []<>(pc[p] \notin {"fetchVideos", "fetchArticles", "posting"})
        \* a fetch of each source returns again and again
        /\ []<>(fetched[p].youtube = "ok")
        /\ []<>(fetched[p].wwfcNews = "ok")
        \* the login, tried again and again, succeeds again and again, and so
        \* does the publish of an item
        /\ SF_vars(CreateClient(p) /\ pc'[p] = "posting")
        /\ SF_vars(PostItem(p) /\ results'[p][Len(results'[p])].success)

SpecLive == InitRace /\ [][Next]_vars /\ Fairness

(***************************************************************************)
(* SpecDup: reconciliation cycles over reliable sources of fixed contents   *)
(* whose lists can hold the same id more than once.                         *)
(***************************************************************************)
DupContents ==
    [uploads : SeqsUpTo(1..NumVideoIds, maxResults),
     shorts : {{}},
     news : SeqsUpTo(1..NumArticleIds, pageSize),
     reliable : {TRUE}]

InitDup ==
    /\ kv = Null
    /\ cachedState = [p \in Invocations |-> Null]
    /\ isDirty = [p \in Invocations |-> FALSE]
    /\ faulty = FALSE
    /\ last = NoCall
    /\ \E c \in DupContents : contents = <<c>>
    /\ CycleInit

SpecDup == InitDup /\ [][Next]_vars

(***************************************************************************)
(* SpecFaulty: the reconciliation cycles of Spec over a namespace whose     *)
(* calls can reject, during one of the cycles.                              *)
(***************************************************************************)
SpecFaulty == InitSM /\ [][Next]_vars

(***************************************************************************)
(* Claims.                                                                  *)
(***************************************************************************)
\* the state-manager key under which the ids of an item's source are kept
KeyOf(itemSource) == IF itemSource = "youtube" THEN "youtube" ELSE "wwfcNews"

\* the items handed to the publisher so far in the cycle of invocation p
Handed(p) == [i \in DOMAIN results[p] |-> results[p][i].item]

\* invocation p has handed its whole batch to the publisher
BatchHanded(p) ==
    pc[p] = "posting" /\ Len(results[p]) = Len(allNewItems[p])

\* C1 as stated: across serialized cycles with no store failure, an item whose
\* publish succeeded in an earlier cycle, with fewer than MAX_POSTED_IDS ids of
\* its source marked in the cycles since, is never handed to the publisher
\* again.
C1_NeverPublishedAgain ==
    \A p \in Procs :
        pc[p] = "posting" =>
            \A i \in DOMAIN results[p] :
                published[KeyOf(Handed(p)[i].source)][Handed(p)[i].id].since
                    = MAX_POSTED_IDS

\* C1 as amended: the same, the ids of its source published before it in its
\* own cycle counting among the ids marked since: an item published in an
\* earlier cycle with fewer than MAX_POSTED_IDS such ids is never handed to
\* the publisher again.
C1_NeverPublishedAgainInWindow ==
    \A p \in Procs :
        pc[p] = "posting" =>
            \A i \in DOMAIN results[p] :
                LET was == published[KeyOf(Handed(p)[i].source)][Handed(p)[i].id]
                IN was.since + was.before >= MAX_POSTED_IDS

\* a cycle has handed a batch to the publisher while its video source listed
\* a video published in an earlier cycle and still in the window, which is
\* not in the batch
C1_Witness ==
    \E p \in Procs :
        /\ BatchHanded(p)
        /\ results[p] # <<>>
        /\ \E id \in listed[p].youtube :
              /\ published.youtube[id].since + published.youtube[id].before
                     < MAX_POSTED_IDS
              /\ \A i \in DOMAIN results[p] :
                     ~(Handed(p)[i].source = "youtube" /\ Handed(p)[i].id = id)


\* the record the session of invocation p works on: the one getState returns
\* without rejection, the cached record or else the stored one or the default
SessionState(p) ==
    IF cachedState[p] # Null THEN cachedState[p][1] ELSE StoredOrDefault(kv)

FilterOps == {"filterNewItems", "filterNewItemsSync"}

\* C2: whenever filterNewItems / filterNewItemsSync returns, for any source,
\* any postedIds and any input list (repeated ids included), the list returned
\* holds exactly the items whose id is not in the source's postedIds, in input
\* order (the k-th item kept is the k-th of the input that is not posted), and
\* the call changes neither the store, nor the dirty flag, nor the record of
\* the session.
C2_FilterPartitionsInOrder ==
    [][(last'.op \in FilterOps /\ ~last'.threw) =>
          LET posted == Range(SessionState(1)[last'.source].postedIds)
              ids == last'.ids
              kept(i) == Cardinality({j \in 1..i : ids[j] \notin posted})
          IN  /\ Len(last'.ret) = kept(Len(ids))
              /\ \A i \in DOMAIN ids :
                    ids[i] \notin posted => last'.ret[kept(i)] = ids[i]
              /\ kv' = kv
              /\ isDirty' = isDirty
              /\ SessionState(1)' = SessionState(1)
      ]_vars

\* a filter call has returned one of two distinct items it was given, the
\* second one, the first being posted
C2_Witness ==
    /\ last.op \in FilterOps
    /\ ~last.threw
    /\ Len(last.ids) = 2
    /\ last.ids[1] # last.ids[2]
    /\ last.ret = <<last.ids[2]>>

\* the ids of the items of itemSource in res whose outcome is ok
OutcomeIds(res, itemSource, ok) ==
    {res[i].item.id : i \in {j \in DOMAIN res :
                                res[j].item.source = itemSource /\ res[j].success = ok}}

StoredIds(kvv, source) == Range(StoredOrDefault(kvv)[source].postedIds)

ItemSources == {"youtube", "wwfc-news"}

\* C3: for any batch and any pattern of publish outcomes, when
\* processPostResults returns the ids it added to the stored postedIds of a
\* source are exactly the ids of the items of that source published
\* successfully, and the id of every failed item is absent from postedIds;
\* nothing but processPostResults changes the stored postedIds, and a fetch
\* returns as new every id the source lists that is absent from them, so a
\* failed item is new again in the next cycle if the source still lists it.
C3_OnlySuccessfulIdsCommitted ==
    [][\A p \in Procs :
          /\ (pc[p] = "posting" /\ pc'[p] = "done" /\ status'[p] = "ok") =>
                \A itemSource \in ItemSources :
                    LET source == KeyOf(itemSource)
                        succeeded == OutcomeIds(results[p], itemSource, TRUE)
                        failed == OutcomeIds(results[p], itemSource, FALSE)
                    IN  /\ StoredIds(kv', source) \ StoredIds(kv, source) = succeeded
                        /\ succeeded \subseteq StoredIds(kv', source)
                        /\ failed \cap StoredIds(kv', source) = {}
          /\ pc[p] # "posting" =>
                \A source \in SourceKeys :
                    StoredOrDefault(kv')[source].postedIds
                        = StoredOrDefault(kv)[source].postedIds
          /\ \A itemSource \in ItemSources :
                listed'[p][KeyOf(itemSource)] # listed[p][KeyOf(itemSource)] =>
                    \A id \in listed'[p][KeyOf(itemSource)] \ StoredIds(kv, KeyOf(itemSource)) :
                        \E i \in DOMAIN allNewItems'[p] :
                            /\ allNewItems'[p][i].source = itemSource
                            /\ allNewItems'[p][i].id = id
      ]_vars

\* processPostResults has returned for a batch of two videos of which the
\* first failed and the second was published; the store holds the second only
C3_Witness ==
    \E p \in Procs :
        /\ pc[p] = "done"
        /\ status[p] = "ok"
        /\ Len(results[p]) = 2
        /\ results[p][1].item.source = "youtube" /\ ~results[p][1].success
        /\ results[p][2].item.source = "youtube" /\ results[p][2].success
        /\ results[p][2].item.id \in StoredIds(kv, "youtube")
        /\ results[p][1].item.id \notin StoredIds(kv, "youtube")

\* C4: in every cycle, the items handed to the publisher are the new items of
\* both sources in ascending order of publishedAt: they are handed in the
\* order of allNewItems, and no new item of the cycle with a strictly earlier
\* publishedAt comes after (or is still to be handed behind) a handed one.
C4_HandedInPublishedOrder ==
    \A p \in Procs :
        pc[p] = "posting" =>
            /\ Handed(p) = SubSeq(allNewItems[p], 1, Len(results[p]))
            /\ \A i \in DOMAIN results[p] : \A j \in DOMAIN allNewItems[p] :
                  allNewItems[p][j].publishedAt < Handed(p)[i].publishedAt => j < i
            /\ \A source \in SourceKeys :
                  \A id \in listed[p][source] \ StoredIds(kv, source) :
                      \E j \in DOMAIN allNewItems[p] :
                          /\ KeyOf(allNewItems[p][j].source) = source
                          /\ allNewItems[p][j].id = id

\* a whole batch has been handed to the publisher in which a video comes
\* first, an article that is no older second, and then a video with a later
\* publishedAt than the article
C4_Witness ==
    \E p \in Procs :
        /\ BatchHanded(p)
        /\ Len(results[p]) = 3
        /\ Handed(p)[1].source = "youtube"
        /\ Handed(p)[2].source = "wwfc-news"
        /\ Handed(p)[3].source = "youtube"
        /\ Handed(p)[1].publishedAt <= Handed(p)[2].publishedAt
        /\ Handed(p)[2].publishedAt < Handed(p)[3].publishedAt

MarkOps == {"markAsPosted", "markManyAsPosted", "markAsPostedSync",
            "markManyAsPostedSync"}

\* postedIds of every source, cached and stored, is within the bound
WithinBound ==
    \A source \in SourceKeys :
        /\ Len(StoredOrDefault(kv)[source].postedIds) <= MAX_POSTED_IDS
        /\ Len(SessionState(1)[source].postedIds) <= MAX_POSTED_IDS

\* C5: after any sequence of mark-as-posted operations with id lists of any
\* length, the postedIds of each source, cached and stored, has at most
\* MAX_POSTED_IDS entries; each operation leaves the longest prefix within the
\* bound of the ids passed followed by the previous list, so entries are
\* dropped from the tail only.
C5_BoundedDroppingTail ==
    [][/\ WithinBound'
       /\ (last'.op \in MarkOps /\ ~last'.threw) =>
             LET whole == last'.ids \o SessionState(1)[last'.source].postedIds
                 now == SessionState(1)'[last'.source].postedIds
             IN  /\ Len(now) = IF Len(whole) < MAX_POSTED_IDS THEN Len(whole)
                               ELSE MAX_POSTED_IDS
                 /\ \A i \in DOMAIN now : now[i] = whole[i]
      ]_vars

\* a mark-as-posted operation given a list longer than the bound has
\* returned, leaving a full list of two different ids
C5_Witness ==
    /\ last.op \in {"markManyAsPosted", "markManyAsPostedSync"}
    /\ ~last.threw
    /\ Len(last.ids) > MAX_POSTED_IDS
    /\ Len(SessionState(1)[last.source].postedIds) = MAX_POSTED_IDS
    /\ SessionState(1)[last.source].postedIds[1] # SessionState(1)[last.source].postedIds[2]

\* C6 as stated: after a mark-as-posted operation that returned, an isPosted /
\* isPostedSync query made next in the session for the same source and any id
\* that was passed returns true.
C6_MarkedThenPosted ==
    [][(/\ last.op \in MarkOps /\ ~last.threw
        /\ last'.op \in {"isPosted", "isPostedSync"} /\ ~last'.threw
        /\ last'.source = last.source
        /\ last'.ids[1] \in Range(last.ids)) => last'.ret = <<TRUE>>
      ]_vars

\* C6 as amended: the same for any id among the first MAX_POSTED_IDS ids
\* passed (every id of a list no longer than the bound).
C6_MarkedWithinBoundThenPosted ==
    [][(/\ last.op \in MarkOps /\ ~last.threw
        /\ last'.op \in {"isPosted", "isPostedSync"} /\ ~last'.threw
        /\ last'.source = last.source
        /\ last'.ids[1] \in Range(Slice(last.ids, MAX_POSTED_IDS))) =>
            last'.ret = <<TRUE>>
      ]_vars

\* an isPosted / isPostedSync query has returned true for the one id a
\* mark-as-posted operation has put in the list of the source
C6_Witness ==
    /\ last.op \in {"isPosted", "isPostedSync"}
    /\ last.ret = <<TRUE>>
    /\ SessionState(1)[last.source].postedIds = <<last.ids[1]>>
    /\ SessionState(1)[last.source].lastUpdatedAt = Now

\* C7: one run of processNewContent makes at most one kv.put of the state
\* record, whatever the fetches and the publish outcomes are.
C7_AtMostOneWritePerCycle ==
    \A p \in Procs : writes[p] <= 1

\* C8: a saveIfDirty call makes a kv.put, of the cached state, if and only if
\* the dirty flag is set and a state is loaded; when it returns, it returns
\* true exactly when it made the put, the store then holds the cached state
\* and the dirty flag is clear; without a put, or with a put that rejected,
\* the store and the flag are as they were.
C8_SaveIfDirtyWritesIffDirty ==
    [][last'.op = "saveIfDirty" =>
          LET due == isDirty[1] /\ cachedState[1] # Null IN
          /\ last'.puts = IF due THEN 1 ELSE 0
          /\ ~last'.threw => last'.ret = <<last'.puts = 1>>
          /\ (last'.puts = 1 /\ ~last'.threw) =>
                /\ kv' = <<JSONstringify(cachedState[1][1])>>
                /\ StoredOrDefault(kv') = cachedState[1][1]
                /\ ~isDirty'[1]
          /\ (last'.puts = 0 \/ last'.threw) => (kv' = kv /\ isDirty' = isDirty)
          /\ cachedState' = cachedState
      ]_vars

\* saveIfDirty has returned true and the store, which held another record,
\* holds the cached one
C8_Witness ==
    /\ last.op = "saveIfDirty"
    /\ last.ret = <<TRUE>>
    /\ last.puts = 1
    /\ ~isDirty[1]
    /\ kv # Null
    /\ StoredOrDefault(kv) = cachedState[1][1]
    /\ cachedState[1][1].youtube.consecutiveFailures > 0

\* C9: of two saveIfDirty calls made in a row (the first returns, the second
\* follows with no mutation in between), the second makes no kv.put and
\* returns false, so the two make at most one kv.put in total.
C9_SecondSaveIsNoOp ==
    [][(last.op = "saveIfDirty" /\ ~last.threw /\ last'.op = "saveIfDirty") =>
          /\ last'.puts = 0
          /\ ~last'.threw
          /\ last'.ret = <<FALSE>>
          /\ last.puts + last'.puts <= 1
          /\ kv' = kv
      ]_vars

\* saveIfDirty has returned true, writing the record, and the dirty flag is
\* clear: the state in which the second call is made
C9_Witness ==
    /\ last.op = "saveIfDirty"
    /\ ~last.threw
    /\ last.ret = <<TRUE>>
    /\ ~hasPendingChanges(ManagerOf(1))
    /\ saveIfDirtyResult(ManagerOf(1)) = FALSE

ResetOps == {"resetFailures", "resetFailuresSync"}

\* C10: a resetFailures / resetFailuresSync call for a source whose counter is
\* 0 changes neither the record of the session (counter, lastUpdatedAt), nor
\* the dirty flag, nor the store, and makes no kv.put; a call that returns for
\* a source whose counter is greater than 0 sets the counter to 0, and the
\* store is written: resetFailures makes one kv.put of the record at once,
\* resetFailuresSync sets the dirty flag, with which saveIfDirty makes the
\* kv.put of the record.
C10_ResetWritesOnlyWhenNonZero ==
    [][/\ last'.op \in ResetOps =>
             LET source == last'.source
                 before == SessionState(1)[source].consecutiveFailures
             IN  /\ before = 0 =>
                       /\ SessionState(1)' = SessionState(1)
                       /\ isDirty' = isDirty
                       /\ kv' = kv
                       /\ last'.puts = 0
                 /\ (before > 0 /\ ~last'.threw) =>
                       /\ SessionState(1)'[source].consecutiveFailures = 0
                       /\ last'.op = "resetFailures" =>
                             /\ last'.puts = 1
                             /\ StoredOrDefault(kv')[source].consecutiveFailures = 0
                             /\ StoredOrDefault(kv') = SessionState(1)'
                       /\ last'.op = "resetFailuresSync" =>
                             /\ isDirty'[1]
                             /\ last'.puts = 0
                             /\ kv' = kv
       /\ (last'.op = "saveIfDirty" /\ isDirty[1]) =>
             /\ last'.puts = 1
             /\ ~last'.threw => StoredOrDefault(kv') = SessionState(1)
      ]_vars

\* saveIfDirty has written a record whose youtube counter resetFailuresSync
\* had set to 0 (a counter of 0 with a lastUpdatedAt other than the default is
\* a reset one), while the wwfcNews counter is 0 and never changed
C10_Witness ==
    /\ last.op = "saveIfDirty"
    /\ last.puts = 1
    /\ ~last.threw
    /\ StoredOrDefault(kv).youtube.consecutiveFailures = 0
    /\ StoredOrDefault(kv).youtube.lastUpdatedAt = Now
    /\ StoredOrDefault(kv).wwfcNews = DEFAULT_SOURCE_STATE

RecordOps == {"recordFailure", "recordFailureSync"}

\* C11: every recordFailure / recordFailureSync call that returns leaves the
\* source's consecutiveFailures one above what it was and returns the new
\* value, the other source's counter being as it was; a call made right after
\* another for the same source returns one more than it, so n calls in a row
\* from 0 return 1, 2, ..., n.
C11_RecordFailureCountsByOne ==
    [][(last'.op \in RecordOps /\ ~last'.threw) =>
          LET source == last'.source
              before == SessionState(1)[source].consecutiveFailures
          IN  /\ SessionState(1)'[source].consecutiveFailures = before + 1
              /\ last'.ret = <<before + 1>>
              /\ \A other \in SourceKeys \ {source} :
                    SessionState(1)'[other].consecutiveFailures
                        = SessionState(1)[other].consecutiveFailures
              /\ (/\ last.op \in RecordOps /\ ~last.threw
                  /\ last.source = source) => last'.ret = <<last.ret[1] + 1>>
      ]_vars

\* the third call for youtube has returned 3, the counter of wwfcNews being 0
C11_Witness ==
    /\ last.op \in RecordOps
    /\ ~last.threw
    /\ last.source = "youtube"
    /\ last.ret = <<3>>
    /\ SessionState(1).youtube.consecutiveFailures = 3
    /\ SessionState(1).wwfcNews.consecutiveFailures = 0

\* tags: { source: ... } of the report of a fetch failure of the source
TagOf(source) == IF source = "youtube" THEN "youtube" ELSE "wwfc-news"

\* the step is the try / catch block of the source in invocation p
FetchStep(p, source) == fetched[p][source] = "none" /\ fetched'[p][source] # "none"

\* C12 as stated: a fetch failure of a source is reported only in the cycle
\* where the source's failure count reaches 3, so that the cycles of the 4th
\* and later failures in a row make no report for the source.
C12_EscalatesOnlyOnReachingThree ==
    \A p \in Procs : \A source \in SourceKeys :
        TagOf(source) \in reports[p] =>
            SessionState(p)[source].consecutiveFailures = ALERT_FAILURE_THRESHOLD

\* C12: over a run of consecutive fetch failures of one source, the cycle
\* of the first and of the second failure make no report for the source, the
\* cycle where the count reaches 3 makes one, and so does the cycle of
\* every later failure of the run (the 4th and later): the counter the
\* earlier cycles left is 2 or more.
C12_EscalatesFromThirdFailureOn ==
    [][\A p \in Procs : \A source \in SourceKeys :
          (FetchStep(p, source) /\ fetched'[p][source] = "failed") =>
              /\ TagOf(source) \notin reports[p]
              /\ TagOf(source) \in reports'[p]
                    <=> StoredOrDefault(kv)[source].consecutiveFailures
                            >= ALERT_FAILURE_THRESHOLD - 1
              /\ StoredOrDefault(kv)[source].consecutiveFailures
                    >= ALERT_FAILURE_THRESHOLD => TagOf(source) \in reports'[p]
      ]_vars

\* the 4th failure in a row of the videos has been reported
C12_Witness ==
    /\ fetched[1].youtube = "failed"
    /\ "youtube" \in reports[1]
    /\ StoredOrDefault(kv).youtube.consecutiveFailures = ALERT_FAILURE_THRESHOLD + 1

\* C13: in a cycle where the fetch of a source failed, the failure has been
\* reported if and only if the source's counter, incremented by this
\* failure, is 3 or more: not at 1 or 2; a fetch that succeeded is not
\* reported.
C13_ReportedIffThresholdReached ==
    \A p \in Procs : \A source \in SourceKeys :
        /\ fetched[p][source] = "failed" =>
              /\ SessionState(p)[source].consecutiveFailures >= 1
              /\ TagOf(source) \in reports[p]
                    <=> SessionState(p)[source].consecutiveFailures >= 3
              /\ SessionState(p)[source].consecutiveFailures \in {1, 2}
                    => TagOf(source) \notin reports[p]
        /\ fetched[p][source] # "failed" => TagOf(source) \notin reports[p]

\* the articles failed for the third time in a row and were reported, the
\* videos for the second time and were not
C13_Witness ==
    /\ fetched[1].wwfcNews = "failed"
    /\ fetched[1].youtube = "failed"
    /\ SessionState(1).wwfcNews.consecutiveFailures = 3
    /\ SessionState(1).youtube.consecutiveFailures = 2
    /\ reports[1] = {"wwfc-news"}

\* the ids of the items of one source among items
IdsOf(items, itemSource) ==
    {items[i].id : i \in {j \in DOMAIN items : items[j].source = itemSource}}

\* C14: the block of the videos always leads to the block of the articles,
\* whether the fetch of the videos failed or not, and no fetch failure ends
\* the cycle with an error; after a failed fetch of one source the new items
\* of the other source, those it listed whose ids are not in its postedIds,
\* are all handed to the publisher, and those published successfully are
\* in the stored postedIds when the cycle ends.
C14_FetchFailureIsolated ==
    [][\A p \in Procs :
          /\ pc[p] = "fetchVideos" =>
                /\ pc'[p] = "fetchArticles"
                /\ fetched'[p].youtube \in {"ok", "failed"}
                /\ status'[p] = "none"
          /\ FetchStep(p, "wwfcNews") =>
                /\ status'[p] # "error"
                /\ IdsOf(allNewItems'[p], "youtube") = IdsOf(allNewItems[p], "youtube")
                /\ IdsOf(allNewItems'[p], "wwfc-news")
                      = IF fetched'[p].wwfcNews = "failed" THEN {}
                        ELSE listed'[p].wwfcNews \ StoredIds(kv, "wwfcNews")
                /\ Len(allNewItems'[p]) = Cardinality(IdsOf(allNewItems'[p], "youtube"))
                                        + Cardinality(IdsOf(allNewItems'[p], "wwfc-news"))
                /\ pc'[p] = IF allNewItems'[p] = <<>> THEN "done" ELSE "createClient"
          /\ FetchStep(p, "youtube") =>
                IdsOf(allNewItems'[p], "youtube")
                    = IF fetched'[p].youtube = "failed" THEN {}
                      ELSE listed'[p].youtube \ StoredIds(kv, "youtube")
          /\ (pc[p] = "posting" /\ pc'[p] = "done") =>
                /\ IdsOf(Handed(p), "youtube") = IdsOf(allNewItems[p], "youtube")
                /\ IdsOf(Handed(p), "wwfc-news") = IdsOf(allNewItems[p], "wwfc-news")
                /\ status'[p] = "ok"
                /\ \A itemSource \in ItemSources :
                      OutcomeIds(results[p], itemSource, TRUE)
                          \subseteq StoredIds(kv', KeyOf(itemSource))
      ]_vars

\* the fetch of the videos failed, the new article was published and its id
\* is stored
C14_Witness ==
    /\ pc[1] = "done"
    /\ status[1] = "ok"
    /\ fetched[1].youtube = "failed"
    /\ fetched[1].wwfcNews = "ok"
    /\ Len(results[1]) = 1
    /\ results[1][1].success
    /\ results[1][1].item.source = "wwfc-news"
    /\ results[1][1].item.id \in StoredIds(kv, "wwfcNews")

\* the stored consecutiveFailures of a source
StoredFailures(kvv, source) == StoredOrDefault(kvv)[source].consecutiveFailures

\* C15: the block of a source whose fetch succeeded leaves the source's
\* stored counter at 0, the block of a source whose fetch failed leaves it
\* one above what the cycle found, and no other step of a cycle changes the
\* stored counter of a source: when the cycle is over the counter is 0 after
\* a successful fetch and one more than after the previous cycle after a
\* failed one, that is the number of cycles in a row in which the fetch has
\* failed.
C15_CounterIsFailuresInARow ==
    [][\A p \in Procs : \A source \in SourceKeys :
          /\ IF FetchStep(p, source)
             THEN StoredFailures(kv', source)
                     = IF fetched'[p][source] = "ok" THEN 0
                       ELSE StoredFailures(kv, source) + 1
             ELSE StoredFailures(kv', source) = StoredFailures(kv, source)
          /\ pc'[p] = "done" =>
                /\ fetched'[p][source] = "ok" => StoredFailures(kv', source) = 0
                /\ fetched'[p][source] = "failed" => StoredFailures(kv', source) >= 1
                /\ SessionState(p)'[source].consecutiveFailures
                      = StoredFailures(kv', source)
      ]_vars

\* a cycle is over in which the videos failed for the third time in a row
\* and the articles, fetched and published, left a counter of 2 for 0
C15_Witness ==
    /\ pc[1] = "done"
    /\ fetched[1].youtube = "failed"
    /\ fetched[1].wwfcNews = "ok"
    /\ StoredFailures(kv, "youtube") = 3
    /\ StoredFailures(kv, "wwfcNews") = 0
    /\ Len(results[1]) = 1
    /\ results[1][1].success

\* the stored postedIds of a source
StoredPostedIds(kvv, source) == StoredOrDefault(kvv)[source].postedIds

\* C16: when the two blocks have left allNewItems empty, the block of the
\* articles ends the cycle: the status is ok, the login is not attempted, no
\* result exists and no report with tag bluesky is made; the blocks leave the
\* stored postedIds of both sources as they were and each writes to the store
\* once if it changes the counter of its source and not at all otherwise.
C16_NothingNewEndsAfterFetch ==
    [][\A p \in Procs :
          /\ \A source \in SourceKeys :
                FetchStep(p, source) =>
                   /\ \A s \in SourceKeys :
                         StoredPostedIds(kv', s) = StoredPostedIds(kv, s)
                   /\ writes'[p] - writes[p]
                         = IF StoredFailures(kv', source) # StoredFailures(kv, source)
                           THEN 1 ELSE 0
                   /\ writes'[p] = writes[p] => kv' = kv
                   /\ results'[p] = <<>>
          /\ (FetchStep(p, "wwfcNews") /\ allNewItems'[p] = <<>>) =>
                /\ pc'[p] = "done"
                /\ status'[p] = "ok"
                /\ "bluesky" \notin reports'[p]
          /\ (pc[p] = "done" /\ allNewItems[p] = <<>>) =>
                /\ pc'[p] \in {"done", "idle"}
                /\ results[p] = <<>>
                /\ kv' = kv
      ]_vars

\* a cycle has ended with nothing new: the fetch of the videos failed, which
\* caused the one write, and the article listed was posted already
C16_Witness ==
    /\ pc[1] = "done"
    /\ status[1] = "ok"
    /\ allNewItems[1] = <<>>
    /\ results[1] = <<>>
    /\ fetched[1].youtube = "failed"
    /\ fetched[1].wwfcNews = "ok"
    /\ listed[1].wwfcNews = {1}
    /\ 1 \in StoredIds(kv, "wwfcNews")
    /\ writes[1] = 1

\* C17: when the login fails the cycle ends with an error and a report
\* with tag bluesky, whatever the counters of the sources are; nothing has
\* been handed to the publisher, the store is as it was and the id of no
\* candidate item is in the stored postedIds, so that the filter of the next
\* cycle lets them through again.
C17_LoginFailureAbortsAndReports ==
    [][\A p \in Procs :
          (pc[p] = "createClient" /\ pc'[p] = "done") =>
              /\ status'[p] = "error"
              /\ "bluesky" \in reports'[p]
              /\ reports'[p] \ {"bluesky"} = reports[p]
              /\ allNewItems[p] # <<>>
              /\ results'[p] = <<>>
              /\ published' = published
              /\ kv' = kv
              /\ writes'[p] = writes[p]
              /\ \A itemSource \in ItemSources :
                    IdsOf(allNewItems[p], itemSource)
                        \cap StoredIds(kv', KeyOf(itemSource)) = {}
              /\ \A source \in SourceKeys :
                    LET candidates == [i \in 1..Len(allNewItems[p]) |->
                                          allNewItems[p][i]]
                        ofSource == SelectSeq(candidates,
                                       LAMBDA item : KeyOf(item.source) = source)
                    IN NotPosted(StoredPostedIds(kv', source), ofSource) = ofSource
      ]_vars

\* the login has failed in a cycle with a new video and a new article, both
\* counters being 0: the one report is that of the login
C17_Witness ==
    /\ pc[1] = "done"
    /\ status[1] = "error"
    /\ reports[1] = {"bluesky"}
    /\ results[1] = <<>>
    /\ Len(allNewItems[1]) = 2
    /\ StoredFailures(kv, "youtube") = 0
    /\ StoredFailures(kv, "wwfcNews") = 0
    /\ \A i \in 1..2 :
          allNewItems[1][i].id \notin StoredIds(kv, KeyOf(allNewItems[1][i].source))

\* C18: in a cycle where a kv.get has rejected, the cycle is over with an
\* error and without any side effect: no kv.put was made, nothing was handed
\* to the publisher and the store, with the counters in it, is as the cycle
\* found it.
C18_ReadFailureAbortsCycle ==
    \A p \in Procs :
        "get" \in rejected[p] =>
            /\ pc[p] = "done"
            /\ status[p] = "error"
            /\ writes[p] = 0
            /\ results[p] = <<>>
            /\ fetched[p].wwfcNews = "none"

\* C19: in a cycle where a kv.put has rejected, the cycle does not end with
\* an error and no report with tag bluesky is made.
C19_WriteFailureSwallowed ==
    \A p \in Procs :
        "put" \in rejected[p] =>
            /\ status[p] # "error"
            /\ "bluesky" \notin reports[p]

LoadOps == {"getState", "loadState"}

\* the default state, field by field
AllEmpty ==
    [youtube  |-> [postedIds |-> <<>>, lastUpdatedAt |-> 0, consecutiveFailures |-> 0],
     wwfcNews |-> [postedIds |-> <<>>, lastUpdatedAt |-> 0, consecutiveFailures |-> 0]]

\* C20 as stated: after a getState or loadState call over a store that holds
\* no record, the call has not failed and has returned the default state.
C20_DefaultWhenAbsent ==
    (last.op \in LoadOps /\ kv = Null) =>
        /\ ~last.threw
        /\ last.ret = <<AllEmpty>>

\* C20: over a store whose reads do not fail, getState and loadState never
\* fail; when the store holds no record, loadState, and getState called
\* while nothing is cached, read the store once and return the default state
\* (both sources with no postedIds, no failures, the epoch as lastUpdatedAt),
\* which becomes the cached state; getState called while a state is cached
\* returns that state without reading the store.
C20_DefaultWhenAbsentAndNotCached ==
    [][last'.op \in LoadOps =>
          /\ ~last'.threw
          /\ kv' = kv
          /\ last'.ret = cachedState'[1]
          /\ IF last'.op = "getState" /\ cachedState[1] # Null
             THEN /\ last'.gets = 0
                  /\ last'.ret = cachedState[1]
             ELSE /\ last'.gets = 1
                  /\ kv = Null => last'.ret = <<AllEmpty>>
                  /\ kv # Null => last'.ret = <<JSONparse(kv[1])>>
      ]_vars

\* getState has read a store without a record and returned the default state
C20_Witness ==
    /\ last.op = "getState"
    /\ last.gets = 1
    /\ ~last.threw
    /\ kv = Null
    /\ last.ret = <<AllEmpty>>
    /\ cachedState[1] = <<AllEmpty>>

\* C21: a getState or loadState call on a manager that has a state cached
\* makes no kv.get, returns the cached state, with whatever the calls before
\* have changed in it, and leaves the dirty flag as it was.
C21_LoadedOnce ==
    [][(last'.op \in LoadOps /\ cachedState[1] # Null) =>
          /\ last'.gets = 0
          /\ last'.ret = cachedState[1]
          /\ cachedState'[1] = cachedState[1]
          /\ isDirty'[1] = isDirty[1]
      ]_vars

MarkManyOps == {"markManyAsPosted", "markManyAsPostedSync"}

\* C22: a markManyAsPosted / markManyAsPostedSync call with a list that is
\* not empty, when it returns, leaves as postedIds of the source the first
\* MAX_POSTED_IDS elements of the list followed by the previous postedIds,
\* its consecutiveFailures at 0 and its lastUpdatedAt at the time of the
\* call, the other source being as it was; the Sync variant sets the dirty
\* flag and does not write, the legacy variant writes the record to the store
\* at once.
C22_MarkManySetsListAndResets ==
    [][(last'.op \in MarkManyOps /\ ~last'.threw /\ last'.ids # <<>>) =>
          LET source == last'.source
              whole == last'.ids \o SessionState(1)[source].postedIds
              kept == IF Len(whole) <= MAX_POSTED_IDS THEN Len(whole)
                      ELSE MAX_POSTED_IDS
              after == SessionState(1)'
          IN  /\ after[source].postedIds = SubSeq(whole, 1, kept)
              /\ after[source].consecutiveFailures = 0
              /\ after[source].lastUpdatedAt = Now
              /\ \A other \in SourceKeys \ {source} :
                    after[other] = SessionState(1)[other]
              /\ IF last'.op = "markManyAsPostedSync"
                 THEN /\ isDirty'[1]
                      /\ last'.puts = 0
                      /\ kv' = kv
                 ELSE /\ last'.puts = 1
                      /\ kv' # Null
                      /\ JSONparse(kv'[1]) = after
      ]_vars

\* markManyAsPostedSync has returned after a list longer than the bound: the
\* list of the source is its first MAX_POSTED_IDS ids, the counter, which the
\* store still holds as 2, is 0 and the change is pending
C22_Witness ==
    /\ last.op = "markManyAsPostedSync"
    /\ ~last.threw
    /\ Len(last.ids) = MAX_POSTED_IDS + 1
    /\ SessionState(1).youtube.postedIds = SubSeq(last.ids, 1, MAX_POSTED_IDS)
    /\ last.source = "youtube"
    /\ SessionState(1).youtube.consecutiveFailures = 0
    /\ StoredFailures(kv, "youtube") = 2
    /\ isDirty[1]

\* C23: a markManyAsPosted / markManyAsPostedSync call with an empty list
\* changes nothing: the cached record, with the postedIds,
\* consecutiveFailures and lastUpdatedAt of both sources, the dirty flag and
\* the store are as before the call and no kv.put is made; the legacy
\* variant returns without a kv.get either, and the Sync variant returns
\* unless no state is loaded, which it refuses as with any list.
C23_MarkNothingChangesNothing ==
    [][(last'.op \in MarkManyOps /\ last'.ids = <<>>) =>
          /\ cachedState' = cachedState
          /\ SessionState(1)' = SessionState(1)
          /\ isDirty' = isDirty
          /\ kv' = kv
          /\ last'.puts = 0
          /\ last'.gets = 0
          /\ last'.threw <=> (last'.op = "markManyAsPostedSync" /\ cachedState[1] = Null)
      ]_vars

\* a call with an empty list has returned in a session with a pending change,
\* the counter of the source being 3 still
C23_Witness ==
    /\ last.op \in MarkManyOps
    /\ last.ids = <<>>
    /\ last.source = "youtube"
    /\ ~last.threw
    /\ isDirty[1]
    /\ cachedState[1] # Null
    /\ SessionState(1).youtube.consecutiveFailures = 3
    /\ SessionState(1).youtube.lastUpdatedAt = Now
    /\ SessionState(1).wwfcNews.postedIds # <<>>

\* C24: a clearAllState call that returns leaves the store without a record
\* and the manager as a new one is, nothing cached and nothing pending,
\* whatever the store, the cache and the dirty flag were; the getState or
\* loadState call made next reads the store and returns the default state,
\* and hasPendingChanges called next returns false.
C24_ClearThenDefault ==
    [][/\ (last'.op = "clearAllState" /\ ~last'.threw) =>
             /\ kv' = Null
             /\ cachedState'[1] = Null
             /\ ManagerOf(1)' = Manager(Null, Null, FALSE)
       /\ (last.op = "clearAllState" /\ ~last.threw /\ last'.op \in LoadOps) =>
             /\ ~last'.threw
             /\ last'.gets = 1
             /\ last'.ret = <<AllEmpty>>
             /\ ~isDirty'[1]
       /\ (last.op = "clearAllState" /\ ~last.threw
           /\ last'.op = "hasPendingChanges") => last'.ret = <<FALSE>>
      ]_vars

\* loadState has returned the default state from a store that held a record
\* with failures at first and holds none since it was cleared
C24_Witness ==
    /\ last.op = "loadState"
    /\ ~last.threw
    /\ kv = Null
    /\ last.ret = <<AllEmpty>>
    /\ ~isDirty[1]

\* the last call of initializeState returned, made without skipLatest
Initialized ==
    /\ last.op = "initializeState"
    /\ ~last.threw
    /\ ~last.ret[1].skipLatest

\* C25: once initializeState has returned, without skipLatest, every cycle
\* run while the sources hold the same contents publishes nothing: every id
\* a fetch of the cycle returned is in the stored postedIds of its source,
\* allNewItems is empty, the login is not reached and no result exists.
C25_NothingPublishedAfterInitialize ==
    Initialized =>
        \A p \in Procs :
            /\ \A source \in SourceKeys : listed[p][source] \subseteq StoredIds(kv, source)
            /\ allNewItems[p] = <<>>
            /\ results[p] = <<>>
            /\ pc[p] \in {"idle", "fetchVideos", "fetchArticles", "done"}
            /\ status[p] # "error"

\* a cycle has ended after an initialization: it fetched two videos, behind
\* a short one, and an article, and found nothing new
C25_Witness ==
    /\ Initialized
    /\ pc[1] = "done"
    /\ status[1] = "ok"
    /\ fetched[1].youtube = "ok"
    /\ fetched[1].wwfcNews = "ok"
    /\ Cardinality(listed[1].youtube) = maxResults
    /\ listed[1].wwfcNews # {}
    /\ contents[1].uploads[1] \in contents[1].shorts
    /\ allNewItems[1] = <<>>

\* the publication recorded as x is later than the one recorded as y: fewer
\* ids have been published in the cycles after it, or it came later in the
\* same cycle
PublishedLater(x, y) ==
    \/ x.since < y.since
    \/ x.since = y.since /\ x.before > y.before

\* C26: in the stored postedIds of each source, of two different ids the
\* one nearer to the head was published later than the other.
C26_MostRecentlyPostedFirst ==
    \A source \in SourceKeys :
        LET postedIds == StoredPostedIds(kv, source) IN
        \A i, j \in DOMAIN postedIds :
            (i < j /\ postedIds[i] # postedIds[j]) =>
                PublishedLater(published[source][postedIds[i]],
                               published[source][postedIds[j]])

\* C27: while a cycle is fetching or publishing, before processPostResults,
\* it has made no kv.put: a cycle that stops there leaves the stored record
\* as it found it.
C27_NoWriteBeforeCommit ==
    \A p \in Procs :
        pc[p] \in {"fetchVideos", "fetchArticles", "createClient", "posting"} =>
            writes[p] = 0

\* C28: with two invocations interleaved, every write of an invocation puts
\* in the store the whole record of its own state manager, built from the
\* copy it read earlier and not from what the store holds now: the ids it
\* marks followed by the postedIds of its copy, and the counters of its
\* copy; what the other invocation has written since that read is
\* overwritten (the state of the witness: an id one cycle committed is gone
\* after the write of the other, which published an item the first had
\* published).
C28_WritesOwnCopyOverStore ==
    [][\A p \in Invocations :
          writes'[p] > writes[p] =>
              /\ kv' = <<JSONstringify(cachedState'[p][1])>>
              /\ cachedState[p] # Null =>
                    \A source \in SourceKeys :
                        LET mine == cachedState[p][1][source]
                            stored == JSONparse(kv'[1])[source]
                        IN  IF pc[p] = "posting"
                            THEN stored.postedIds
                                    = Slice(SuccessfulIds(results[p], TagOf(source))
                                               \o mine.postedIds, MAX_POSTED_IDS)
                            ELSE /\ stored.postedIds = mine.postedIds
                                 /\ stored.consecutiveFailures
                                       \in {0, mine.consecutiveFailures,
                                            mine.consecutiveFailures + 1}
      ]_vars

\* both cycles are over without error: the first published videos 1 and 2
\* and committed them, the second, which had read the store before, published
\* video 1 as well and its write has left the store without video 2
C28_Witness ==
    /\ pc[1] = "done" /\ status[1] = "ok"
    /\ pc[2] = "done" /\ status[2] = "ok"
    /\ OutcomeIds(results[1], "youtube", TRUE) = {1, 2}
    /\ OutcomeIds(results[2], "youtube", TRUE) = {1}
    /\ StoredIds(kv, "youtube") = {1}
    /\ 2 \in Range(cachedState[1][1].youtube.postedIds)

\* what the fetch of a source returns from sources of fixed contents
FeedOf(source) ==
    IF source = "youtube" THEN fetchPlaylistVideos(contents[1], maxResults)
    ELSE fetchArticles(contents[1], pageSize)

IndexOf(s, x) == CHOOSE i \in DOMAIN s : s[i] = x

\* C29: when a fetch of a source has returned, the new items of the source
\* in allNewItems are the fetched items that are not posted, in ascending
\* order of publishedAt, items of equal publishedAt in the order in which the
\* fetch returned them; and the batch sorted for the publisher is in
\* ascending order of publishedAt with, among items of equal publishedAt, no
\* article in front of a video.
C29_SortedAscendingAndStable ==
    [][\A p \in Procs : \A source \in SourceKeys :
          FetchStep(p, source) /\ fetched'[p][source] = "ok" =>
              LET feed == FeedOf(source)
                  batch == allNewItems'[p]
                  mine == SelectSeq(batch, LAMBDA item : item.source = TagOf(source))
              IN  /\ {mine[i].id : i \in DOMAIN mine}
                        = Range(feed) \ StoredIds(kv, source)
                  /\ \A i, j \in DOMAIN mine :
                        i < j =>
                            /\ mine[i].publishedAt <= mine[j].publishedAt
                            /\ mine[i].publishedAt = mine[j].publishedAt =>
                                  IndexOf(feed, mine[i].id) < IndexOf(feed, mine[j].id)
                  /\ pc'[p] = "createClient" =>
                        \A i, j \in DOMAIN batch :
                            i < j =>
                                /\ batch[i].publishedAt <= batch[j].publishedAt
                                /\ (/\ batch[i].publishedAt = batch[j].publishedAt
                                    /\ batch[j].source = "youtube")
                                      => batch[i].source = "youtube"
      ]_vars

\* the channel lists video 3 in front of video 1 and the site article 1, all
\* of the same publishedAt, and the sorted batch is video 3, video 1,
\* article 1
C29_Witness ==
    \E p \in Procs :
        /\ pc[p] = "createClient"
        /\ contents # Null
        /\ FeedOf("youtube") = <<3, 1>>
        /\ FeedOf("wwfcNews") = <<1>>
        /\ allNewItems[p] = <<videoToContentItem(3), videoToContentItem(1),
                              articleToContentItem(1)>>
        /\ VideoPublishedAt(3) = VideoPublishedAt(1)
        /\ VideoPublishedAt(1) = ArticlePublishedAt(1)

\* the steps from one phase of a cycle to the next
PhaseSteps ==
    {<<"idle", "fetchVideos">>, <<"fetchVideos", "fetchArticles">>,
     <<"fetchVideos", "done">>, <<"fetchArticles", "createClient">>,
     <<"fetchArticles", "done">>, <<"createClient", "posting">>,
     <<"createClient", "done">>, <<"posting", "done">>, <<"done", "idle">>}

\* C30: in every cycle the phases follow one another in the order video
\* fetch, article fetch, publishing, committing: the article fetch is made
\* when the video fetch has ended, an item is published when both fetches
\* have ended, and postedIds changes in the store only when the publisher
\* has returned a result for every item of the batch, the last included.
C30_PhasesInFixedOrder ==
    [][\A p \in Procs :
          /\ pc'[p] # pc[p] => <<pc[p], pc'[p]>> \in PhaseSteps
          /\ FetchStep(p, "wwfcNews") =>
                /\ fetched[p].youtube # "none"
                /\ results[p] = <<>>
          /\ Len(results'[p]) > Len(results[p]) =>
                /\ fetched[p].youtube # "none"
                /\ fetched[p].wwfcNews # "none"
                /\ Len(results'[p]) = Len(results[p]) + 1
                /\ results'[p][Len(results'[p])].item = allNewItems[p][Len(results'[p])]
          /\ (\E source \in SourceKeys :
                 StoredPostedIds(kv', source) # StoredPostedIds(kv, source)) =>
                /\ pc[p] = "posting"
                /\ results[p] # <<>>
                /\ Len(results[p]) = Len(allNewItems[p])
                /\ results'[p] = results[p]
      ]_vars

\* a cycle has committed a batch of three items: both fetches had ended,
\* the publisher has returned a result for each of the three, and the store
\* holds the ids of the items published successfully, the last among them
C30_Witness ==
    \E p \in Procs :
        /\ pc[p] = "done" /\ status[p] = "ok"
        /\ fetched[p].youtube = "ok" /\ fetched[p].wwfcNews = "ok"
        /\ Len(results[p]) = 3
        /\ results[p][3].success
        /\ results[p][3].item.id
              \in StoredIds(kv, KeyOf(results[p][3].item.source))
        /\ writes[p] > 0

\* invocation p has gone through processPostResults
Committed(p) == pc[p] = "done" /\ results[p] # <<>>

\* C31: the results of postContentItems are, at any time, one result for
\* each of the first items of the batch, in batch order, whatever their
\* outcomes; while some item has no result the loop can go on with the next
\* item, and when processPostResults has been called every item of the batch
\* has its one result.
C31_OneResultPerItemInOrder ==
    \A p \in Procs :
        /\ Len(results[p]) <= Len(allNewItems[p])
        /\ \A i \in DOMAIN results[p] : results[p][i].item = allNewItems[p][i]
        /\ (pc[p] = "posting" /\ Len(results[p]) < Len(allNewItems[p])) =>
              ENABLED PostItem(p)
        /\ Committed(p) => Len(results[p]) = Len(allNewItems[p])

\* a batch of three items has gone through: the publish of the first failed,
\* the publish of the second failed, the third was published
C31_Witness ==
    \E p \in Procs :
        /\ Committed(p)
        /\ Len(allNewItems[p]) = 3
        /\ Len(results[p]) = 3
        /\ ~results[p][1].success
        /\ ~results[p][2].success
        /\ results[p][3].success

\* the captureMessage calls of invocation p that are about the item of
\* the result r
MessagesAbout(reported, r) ==
    {k \in DOMAIN reported :
        reported[k] = [source |-> r.item.source, itemId |-> r.item.id]}

\* C32: a step of the publisher leaves the store as it is; processPostResults
\* makes one captureMessage call for each failed result and none for a
\* successful one, whatever the failure counters are, and leaves no
\* consecutiveFailures counter, stored or cached, higher than it was; no
\* other step of a cycle makes such a call.
C32_PublishFailureReportedNotCounted ==
    [][\A p \in Procs :
          /\ Len(results'[p]) > Len(results[p]) =>
                kv' = kv /\ cachedState' = cachedState
          /\ (pc[p] = "posting" /\ pc'[p] = "done") =>
                /\ \A i \in DOMAIN results[p] :
                      Cardinality(MessagesAbout(messages'[p], results[p][i]))
                          = IF results[p][i].success THEN 0 ELSE 1
                /\ Len(messages'[p])
                      = Cardinality({i \in DOMAIN results[p] : ~results[p][i].success})
                /\ \A source \in SourceKeys :
                      /\ StoredFailures(kv', source) <= StoredFailures(kv, source)
                      /\ cachedState'[p][1][source].consecutiveFailures
                            <= cachedState[p][1][source].consecutiveFailures
          /\ ~(pc[p] = "posting" /\ pc'[p] = "done") =>
                messages'[p] \in {messages[p], <<>>}
      ]_vars

\* a cycle is over in which the fetch of the videos failed for the third
\* time in a row or more, the publish of the one new article failed and was
\* reported, and the counters are as the fetches left them
C32_Witness ==
    \E p \in Procs :
        /\ Committed(p)
        /\ fetched[p].youtube = "failed"
        /\ StoredFailures(kv, "youtube") >= ALERT_FAILURE_THRESHOLD
        /\ StoredFailures(kv, "wwfcNews") = 0
        /\ Len(results[p]) = 1
        /\ ~results[p][1].success
        /\ messages[p] = <<[source |-> "wwfc-news", itemId |-> results[p][1].item.id]>>

\* C33 as stated: in a session that is the only writer of the store,
\* whenever the dirty flag is false and a state is cached, the cached state
\* is the record the store holds (the default state when it holds none).
C33_CleanCacheIsTheStoredRecord ==
    (~isDirty[1] /\ cachedState[1] # Null) =>
        cachedState[1][1] = StoredOrDefault(kv)

\* the number of entries of the list ids that are id
Occurrences(ids, id) == Cardinality({i \in DOMAIN ids : ids[i] = id})

\* C34: the new items of a source are the fetched items whose id is not in
\* the stored postedIds, each as many times as the fetch returned it, and
\* the publisher is handed each of them: when the batch is committed, an id
\* that is not in the stored postedIds has as many results as the fetch of
\* its source returned entries with that id, and a stored one has none.
C34_DeduplicatedAgainstStoreOnly ==
    [][\A p \in Procs : \A source \in SourceKeys :
          LET feed == FeedOf(source)
              handed == AttemptedIds(results[p], TagOf(source))
              new == IdsOfItems(SelectSeq(allNewItems'[p],
                                         LAMBDA item : item.source = TagOf(source)))
          IN  /\ (FetchStep(p, source) /\ fetched'[p][source] = "ok") =>
                    \A id \in Range(feed) :
                        Occurrences(new, id)
                            = IF id \in StoredIds(kv, source) THEN 0
                              ELSE Occurrences(feed, id)
              /\ (pc[p] = "posting" /\ pc'[p] = "done") =>
                    \A id \in Range(feed) :
                        Occurrences(handed, id)
                            = IF id \in StoredIds(kv, source) THEN 0
                              ELSE Occurrences(feed, id)
      ]_vars

\* the channel lists video 1 twice; a cycle over the empty store has
\* published it twice and committed the id twice
C34_Witness ==
    \E p \in Procs :
        /\ Committed(p)
        /\ contents # Null
        /\ FeedOf("youtube") = <<1, 1>>
        /\ AttemptedIds(results[p], "youtube") = <<1, 1>>
        /\ SuccessfulIds(results[p], "youtube") = <<1, 1>>
        /\ StoredPostedIds(kv, "youtube") = <<1, 1>>

\* C38 as stated: after any sequence of initializations and cycles from an
\* empty store, no id is in the stored postedIds of a source more than once.
C38_NoIdStoredTwice ==
    \A source \in SourceKeys : Distinct(StoredPostedIds(kv, source))

SyncOps == {"isPostedSync", "markAsPostedSync", "markManyAsPostedSync",
            "recordFailureSync", "resetFailuresSync", "getFailureCountSync",
            "filterNewItemsSync"}

\* C36: a call of a Sync method on a manager that has no state cached
\* throws, whatever its arguments, without a call of the store, and leaves
\* the cache, the dirty flag and the store as they were.
C36_SyncWithoutStateThrows ==
    [][(last'.op \in SyncOps /\ cachedState[1] = Null) =>
          /\ last'.threw
          /\ last'.gets = 0 /\ last'.puts = 0
          /\ cachedState' = cachedState
          /\ isDirty' = isDirty
          /\ kv' = kv
      ]_vars

\* markManyAsPostedSync has thrown on an empty list, in a session that holds
\* nothing, the store having been cleared
C36_Witness ==
    /\ last.op = "markManyAsPostedSync"
    /\ last.ids = <<>>
    /\ last.threw
    /\ cachedState[1] = Null
    /\ ~isDirty[1]
    /\ kv = Null

\* C37: a saveIfDirty whose kv.put rejects leaves the dirty flag set and the
\* cached state and the store as they were; a saveIfDirty that returns in a
\* session with the flag set, the first or one after such failures, has
\* written the whole cached state to the store and cleared the flag.
C37_FailedSaveCanBeRetried ==
    [][last'.op = "saveIfDirty" =>
          IF last'.threw
          THEN /\ last'.puts = 1
               /\ isDirty[1] /\ isDirty'[1]
               /\ cachedState' = cachedState
               /\ kv' = kv
          ELSE (isDirty[1] /\ cachedState[1] # Null) =>
                   /\ last'.puts = 1
                   /\ last'.ret = <<TRUE>>
                   /\ kv' = <<JSONstringify(cachedState[1][1])>>
                   /\ cachedState' = cachedState
                   /\ ~isDirty'[1]
      ]_vars

\* the kv.put of saveIfDirty has rejected in a session that holds two
\* recorded failures the store does not hold: the flag is still set
C37_Witness ==
    /\ last.op = "saveIfDirty"
    /\ last.threw
    /\ isDirty[1]
    /\ cachedState[1] # Null
    /\ cachedState[1][1].youtube.consecutiveFailures = 2
    /\ StoredFailures(kv, "youtube") = 0

\* C39: the block of a source, which resets or records the failures of that
\* source, leaves the record of the other source, stored and in the session,
\* as it was; the commit puts the ids of the videos published in front of
\* youtube.postedIds and those of the articles published in front of
\* wwfcNews.postedIds, and leaves the record of a source none of whose items
\* was published as it was.
C39_OtherSourceUntouched ==
    [][\A p \in Procs : \A source \in SourceKeys :
          /\ FetchStep(p, source) =>
                \A other \in SourceKeys \ {source} :
                    /\ StoredOrDefault(kv')[other] = StoredOrDefault(kv)[other]
                    /\ SessionState(p)'[other] = SessionState(p)[other]
          /\ (pc[p] = "posting" /\ pc'[p] = "done") =>
                LET ok == SuccessfulIds(results[p], TagOf(source))
                    before == StoredOrDefault(kv)[source]
                    after == StoredOrDefault(kv')[source]
                IN  /\ after = SessionState(p)'[source]
                    /\ IF ok = <<>> THEN after = before
                       ELSE after.postedIds
                               = Slice(ok \o before.postedIds, MAX_POSTED_IDS)
      ]_vars

\* a cycle over the empty store whose article fetch failed has published
\* video 1: the id is in youtube.postedIds only, and the record of the
\* articles holds the failure and nothing else
C39_Witness ==
    \E p \in Procs :
        /\ Committed(p)
        /\ fetched[p].wwfcNews = "failed"
        /\ SuccessfulIds(results[p], "youtube") = <<1>>
        /\ StoredPostedIds(kv, "youtube") = <<1>>
        /\ StoredOrDefault(kv).wwfcNews
              = [DEFAULT_SOURCE_STATE EXCEPT !.consecutiveFailures = 1,
                                             !.lastUpdatedAt = Now]

\* the ids a source can list
IdsOfSource(source) == IF source = "youtube" THEN 1..NumVideoIds ELSE 1..NumArticleIds

\* C35: an item has one result at most in a cycle and the id of a failed
\* one is not committed by the cycle; in every cycle whose fetch of the
\* source returns, each listed id that is not in the stored postedIds is in
\* the batch; and every id the source lists is eventually in the stored
\* postedIds of its source.
C35_FailedItemsRetriedUntilPosted ==
    /\ [][\A p \in Procs : \A source \in SourceKeys :
             /\ \A i, j \in DOMAIN results'[p] :
                   results'[p][i].item = results'[p][j].item => i = j
             /\ (FetchStep(p, source) /\ fetched'[p][source] = "ok") =>
                   \A id \in Range(FeedOf(source)) \ StoredIds(kv, source) :
                       \E i \in DOMAIN allNewItems'[p] :
                           /\ allNewItems'[p][i].source = TagOf(source)
                           /\ allNewItems'[p][i].id = id
             /\ (pc[p] = "posting" /\ pc'[p] = "done") =>
                   StoredIds(kv', source)
                       = StoredIds(kv, source)
                           \cup OutcomeIds(results[p], TagOf(source), TRUE)
         ]_vars
    /\ \A source \in SourceKeys : \A id \in IdsOfSource(source) :
          (id \in Range(FeedOf(source))) ~> (id \in StoredIds(kv, source))

\* the channel lists videos 1 and 2; an earlier cycle has committed video 2
\* alone, the publish of video 1, first of its batch, having failed; this
\* cycle has published video 1 and committed it
C35_Witness ==
    \E p \in Procs :
        /\ Committed(p)
        /\ contents # Null
        /\ Range(FeedOf("youtube")) = {1, 2}
        /\ AttemptedIds(results[p], "youtube") = <<1>>
        /\ SuccessfulIds(results[p], "youtube") = <<1>>
        /\ StoredPostedIds(kv, "youtube") = <<1, 2>>

====
